---- MODULE Spec2Model ----
(***************************************************************************)
(* Resume tailoring backend: the job pipeline (worker loops over the       *)
(* applications / resume_checks tables) and the document patch engine      *)
(* (snapshot builder, fuzzy block matcher, offset translator, patch        *)
(* applier).                                                               *)
(***************************************************************************)
EXTENDS Integers, Sequences, FiniteSets, TLC

\* ------------------------------------------------------------------ bounds

\* Rows that the enqueue endpoint may insert in one run of the model.
MaxJobs == 2

\* Job histories flagged is_default_rewrite for the user.
MaxHist == 1

\* .limit(5) of the workers' select.
SelectLimit == 5

\* str(e)[:2000]: the longest error text the resume-check worker stores.
ErrorLimit == 2000

\* Longest block drawn character by character.
MaxBlockLen == 4

\* Most lines of a block drawn line by line.
MaxLines == 2

\* Longest whitespace run put into a target.
MaxWsRun == 4

\* Number of structural elements of a document value given to the builders.
MaxEls == 2

\* Number of patch calls made on one document.
MaxPatches == 1

\* Items of one parsed extraction.
MaxParsedJobs == 2

\* Length of the blocks searched in a document value.
MaxSnapBlock == 2

\* ------------------------------------------------------------- job pipeline

VARIABLES
    kind,       \* which table / worker pool is running: "tailoring" | "resume_check"
    rows,       \* the table: sequence of rows, row id = position
    pc,         \* per worker: position in the loop / pipeline
    batch,      \* per worker: rows of the last select not yet iterated
    cur,        \* per worker: id of the row being processed (0: none)
    hidx,       \* per worker: histories already handled by the current loop
    pdfId,      \* per worker: local gdrive_pdf_id is set
    jobId,      \* per worker: job_id found by run_resume_check_process (0: None)
    profile,    \* the user's profile row and number of default histories
    ran,        \* history: per row, the workers that entered the pipeline for it
    termWrites, \* history: per row, updates that wrote a terminal status: "none", "once", "many"
    faults,     \* history: per row, what was raised while it was processed: "none",
                \* "logged" (a failed call caught by its step), "external" (a failed
                \* call that left its step), "internal" (an error of the code itself)
    missed,     \* history: per row, a block or the old summary was not found
    calls       \* history: per worker, the calls issued for the row it claimed last

jobVars ==
    <<kind, rows, pc, batch, cur, hidx, pdfId, jobId, profile, ran, termWrites,
      faults, missed, calls>>

\* ----------------------------------------------------------- fuzzy matcher

VARIABLES
    block,      \* matcher input: the original text block
    lineBodies, \* the bodies of the block's lines when every line was given a list prefix
    target,     \* matcher input: the text searched
    how,        \* how the target was derived from the block
    searched,   \* the two patterns have been compiled and searched
    mDocs,      \* result of _pattern_from_block_docs(block).search(target)
    mFlex       \* result of _flexible_pattern_from_block(block).search(target)

matchVars == <<block, lineBodies, target, how, searched, mDocs, mFlex>>

\* ------------------------------------------------- documents and patches

VARIABLES
    docIn,      \* builder input: a document value
    flatDone,   \* _flatten_doc_text_with_map has run on docIn
    snapshot,   \* its result: flat_text and segments
    extractDone,\* _extract_text_with_index_map has run on docIn
    extracted,  \* its result: chars and indices
    planned     \* replace_text_block_flexible on docIn: the block, its match, the requests

snapVars == <<docIn, flatDone, snapshot, extractDone, extracted, planned>>

VARIABLES
    body,       \* the document the Docs service holds
    mergeKeeps, \* the service's rule for the style of merged paragraphs
    before,     \* history: body when the last patch call was made
    call,       \* history: the last patch call and its arguments
    sent,       \* history: the requests of the batchUpdate of the last call (none: <<>>)
    result,     \* what the last call returned (raised: it raised HTTPException)
    nPatches    \* history: number of patch calls so far

patchVars == <<body, mergeKeeps, before, call, sent, result, nPatches>>

VARIABLES
    hasKey,     \* GROQ_API_KEY is in the environment
    attempt,    \* the loop variable of parse_resume_to_json
    ppc,        \* position in parse_resume_to_json
    structured, \* what the last call_llm_with_structured_output returned or raised
    replies,    \* history: what the provider did at each request, in order
    parseResult \* what parse_resume_to_json returned or raised

parseVars == <<hasKey, attempt, ppc, structured, replies, parseResult>>

engineVars == <<matchVars, snapVars, patchVars, parseVars>>

vars == <<jobVars, engineVars>>

Workers == {"w1", "w2"}

Statuses == {"pending", "processing", "completed", "failed"}

Terminal == {"completed", "failed"}

Kinds == {"tailoring", "resume_check"}

Min(a, b) == IF a <= b THEN a ELSE b

\* supabase.table(..).select("*").eq("status", "pending").limit(5): ids in table order.
RECURSIVE PendingFrom(_, _)
PendingFrom(t, i) ==
    IF i > Len(t) THEN <<>>
    ELSE IF t[i].status = "pending" THEN <<i>> \o PendingFrom(t, i + 1)
    ELSE PendingFrom(t, i + 1)

SelectPending(t) ==
    LET p == PendingFrom(t, 1) IN SubSeq(p, 1, Min(Len(p), SelectLimit))

\* .update({"status": s, ...}).eq("id", id): unconditional on the current status.
UpdateStatus(t, id, s) == [t EXCEPT ![id].status = s]

\* The row inserted by create_application / the resume-check enqueue endpoint.
JobKeys == {"k1", "k2"}

\* The error column of a row that no update has written.
NoError == -1

NewRow(k) ==
    [status |-> "pending", key |-> k, final |-> FALSE, summary |-> "none", pdf |-> FALSE,
     error |-> NoError, quals |-> FALSE]

\* The columns of profiles / job_histories that run_tailoring_process reads:
\* base_summary_text non-empty, gdrive_master_resume_id set, and the number of
\* job_histories rows with is_default_rewrite. The resume-check pipeline reads none.
Profiles ==
    {p \in [hasSummary : BOOLEAN, hasMaster : BOOLEAN, nHist : 0..MaxHist, nBlocks : 0..MaxHist] :
        p.nBlocks <= p.nHist}

NoProfile == [hasSummary |-> FALSE, hasMaster |-> FALSE, nHist |-> 0, nBlocks |-> 0]

JobInit ==
    /\ kind \in Kinds
    /\ rows = <<>>
    /\ pc = [w \in Workers |-> "poll"]
    /\ batch = [w \in Workers |-> <<>>]
    /\ cur = [w \in Workers |-> 0]
    /\ hidx = [w \in Workers |-> 0]
    /\ pdfId = [w \in Workers |-> FALSE]
    /\ jobId = [w \in Workers |-> 0]
    /\ profile \in Profiles
    /\ kind = "resume_check" => profile = NoProfile
    /\ ran = <<>>
    /\ termWrites = <<>>
    /\ faults = <<>>
    /\ missed = <<>>
    /\ calls = [w \in Workers |-> <<>>]

\* --- worker loop: process_pending_applications / process_pending_jobs

\* One step inside an iteration of `for app in rows`: the new position and locals.
Step(w, l, h, p, j) ==
    /\ pc' = [pc EXCEPT ![w] = l]
    /\ hidx' = [hidx EXCEPT ![w] = h]
    /\ pdfId' = [pdfId EXCEPT ![w] = p]
    /\ jobId' = [jobId EXCEPT ![w] = j]
    /\ UNCHANGED <<batch, cur>>

Goto(w, l) == Step(w, l, hidx[w], pdfId[w], jobId[w])

\* The locals of an iteration go out of scope when it ends.
ResetLocals(w) ==
    /\ hidx' = [hidx EXCEPT ![w] = 0]
    /\ pdfId' = [pdfId EXCEPT ![w] = FALSE]
    /\ jobId' = [jobId EXCEPT ![w] = 0]

\* End of one iteration: the next row of the batch, or sleep(POLL_INTERVAL) and poll.
FinishJob(w) ==
    /\ pc' = [pc EXCEPT ![w] = IF batch[w] = <<>> THEN "poll" ELSE "claim"]
    /\ cur' = [cur EXCEPT ![w] = IF batch[w] = <<>> THEN 0 ELSE Head(batch[w])]
    /\ batch' = [batch EXCEPT ![w] = IF batch[w] = <<>> THEN <<>> ELSE Tail(batch[w])]
    /\ ResetLocals(w)

\* The outer `except Exception` of the loop: the batch is dropped, sleep(10), poll again.
LoopError(w) ==
    /\ pc' = [pc EXCEPT ![w] = "poll"]
    /\ cur' = [cur EXCEPT ![w] = 0]
    /\ batch' = [batch EXCEPT ![w] = <<>>]
    /\ ResetLocals(w)

\* What no worker step changes.
Const == UNCHANGED <<kind, profile, engineVars>>

\* A step that writes nothing to the table.
NoWrite == UNCHANGED <<rows, ran, termWrites>>

\* An update of row id that writes a terminal status (and the fields given with it).
WriteTerminal(id, s, fields) ==
    /\ rows' = [UpdateStatus(rows, id, s) EXCEPT
                  ![id].final = @ \/ fields.final,
                  ![id].summary = IF fields.summary = "none" THEN @ ELSE fields.summary,
                  ![id].error = IF fields.error = NoError THEN @ ELSE fields.error]
    /\ termWrites' = [termWrites EXCEPT ![id] = IF @ = "none" THEN "once" ELSE "many"]
    /\ UNCHANGED ran

NoFields == [final |-> FALSE, summary |-> "none", error |-> NoError]

\* Nothing is raised and every block is found.
Calm == UNCHANGED <<faults, missed>>

\* Something is raised while w processes its row: f is "logged" (a failed call that
\* the step itself catches and logs), "external" (a failed call that leaves the
\* step) or "internal" (an error of the code itself, which leaves the step).
Fails(w, f) ==
    /\ faults' = [faults EXCEPT ![cur[w]] = IF @ \in {"external", "internal"} THEN @ ELSE f]
    /\ UNCHANGED missed

\* A block is not found (in the stored resume text or in the Drive document).
Misses(w) ==
    /\ missed' = [missed EXCEPT ![cur[w]] = TRUE]
    /\ UNCHANGED faults

\* The call c is issued by w.
Issue(w, c) == calls' = [calls EXCEPT ![w] = Append(@, c)]

\* The (user_id, job_post) of a new row: one already in the table or the first unused
\* one (the names of the keys do not matter); applications rows are all of one user.
EnqueueKeys ==
    IF kind = "tailoring" \/ rows = <<>> THEN {"k1"} ELSE JobKeys

\* The enqueue endpoint inserts a row with status "pending".
Enqueue ==
    /\ Len(rows) < MaxJobs
    /\ \E k \in EnqueueKeys : rows' = Append(rows, NewRow(k))
    /\ ran' = Append(ran, {})
    /\ termWrites' = Append(termWrites, "none")
    /\ faults' = Append(faults, "none")
    /\ missed' = Append(missed, FALSE)
    /\ UNCHANGED <<pc, batch, cur, hidx, pdfId, jobId, calls>>
    /\ Const

\* rows = select ... eq("status", "pending").limit(5); an empty result sleeps and polls again.
Poll(w) ==
    /\ pc[w] = "poll"
    /\ LET sel == SelectPending(rows) IN
        /\ sel # <<>>
        /\ pc' = [pc EXCEPT ![w] = "claim"]
        /\ cur' = [cur EXCEPT ![w] = Head(sel)]
        /\ batch' = [batch EXCEPT ![w] = Tail(sel)]
    /\ UNCHANGED <<hidx, pdfId, jobId, calls>>
    /\ NoWrite
    /\ Calm
    /\ Const

\* update({"status": "processing"}).eq("id", id), then the pipeline is entered.
Claim(w) ==
    /\ pc[w] = "claim"
    /\ \/ /\ rows' = UpdateStatus(rows, cur[w], "processing")
          /\ ran' = [ran EXCEPT ![cur[w]] = @ \cup {w}]
          /\ Goto(w, IF kind = "tailoring" THEN "fetch" ELSE "check")
          /\ calls' = [calls EXCEPT ![w] = <<>>]
          /\ UNCHANGED termWrites
       \/ /\ LoopError(w)
          /\ UNCHANGED calls
          /\ NoWrite
    /\ Calm
    /\ Const

\* --- run_tailoring_process

\* Step 1: the three selects.
FetchData(w) ==
    /\ pc[w] = "fetch"
    /\ \/ Goto(w, "analyze") /\ Calm
       \/ Goto(w, "handler") /\ Fails(w, "external")
    /\ UNCHANGED calls
    /\ NoWrite
    /\ Const

\* Step 2: llm_service.analyze_job_description.
AnalyzeJobDescription(w) ==
    /\ pc[w] = "analyze"
    /\ \/ Goto(w, IF profile.nHist = 0 THEN "assemble" ELSE "rewrite") /\ Calm
       \/ Goto(w, "handler") /\ Fails(w, "external")
    /\ Issue(w, "analyze")
    /\ NoWrite
    /\ Const

\* Step 3: one llm_service.rewrite_job_history call of the loop over the histories.
RewriteJobHistory(w) ==
    /\ pc[w] = "rewrite"
    /\ hidx[w] < profile.nHist
    /\ \/ /\ Step(w, IF hidx[w] + 1 = profile.nHist THEN "assemble" ELSE "rewrite",
                  hidx[w] + 1, pdfId[w], jobId[w])
          /\ Calm
       \/ Goto(w, "handler") /\ Fails(w, "external")
    /\ Issue(w, "rewrite")
    /\ NoWrite
    /\ Const

\* A mutation of AssembleResume: a block that is not found is raised as an error.
AssembleResumeRaisesOnMiss(w) ==
    /\ pc[w] = "assemble"
    /\ \/ Goto(w, "summary") /\ Calm
       \/ profile.nBlocks > 0 /\ Goto(w, "handler") /\ Misses(w)
    /\ UNCHANGED calls
    /\ NoWrite
    /\ Const

\* Step 4: _flexible_replace of every rewritten block in the stored resume text; a
\* history without an achievements block is skipped, and a block that is not
\* found leaves the text as it is.
AssembleResume(w) ==
    /\ pc[w] = "assemble"
    /\ Goto(w, "summary")
    /\ \/ Calm
       \/ profile.nBlocks > 0 /\ Misses(w)
    /\ UNCHANGED calls
    /\ NoWrite
    /\ Const

\* Step 5: llm_service.generate_professional_summary.
GenerateSummary(w) ==
    /\ pc[w] = "summary"
    /\ \/ Goto(w, "complete") /\ Calm
       \/ Goto(w, "handler") /\ Fails(w, "external")
    /\ Issue(w, "summary")
    /\ NoWrite
    /\ Const

\* Steps 6-7 and the final step.  final_resume is bound only when the profile has a
\* summary (the new one replaces it, or is prepended when it is not found); without one, building
\* update_payload raises UnboundLocalError.  Then
\* update({final_resume_text, updated_fields, status: "completed"}); without a
\* master resume id the Drive branch is skipped and the function returns.
UpdateCompleted(w) ==
    /\ pc[w] = "complete"
    /\ \/ /\ ~profile.hasSummary
          /\ Goto(w, "handler")
          /\ Fails(w, "internal")
          /\ NoWrite
          /\ UNCHANGED calls
       \/ /\ profile.hasSummary
          /\ \/ /\ \/ /\ WriteTerminal(cur[w], "completed",
                                [final |-> TRUE, summary |-> "replaced", error |-> NoError])
                         /\ Calm
                      \/ /\ WriteTerminal(cur[w], "completed",
                                [final |-> TRUE, summary |-> "prepended", error |-> NoError])
                         /\ Misses(w)
                /\ IF profile.hasMaster THEN Goto(w, "dup") ELSE FinishJob(w)
                /\ UNCHANGED calls
             \/ /\ Goto(w, "handler")
                /\ Fails(w, "external")
                /\ NoWrite
                /\ UNCHANGED calls
    /\ Const

\* A mutation of AfterHistories: the export follows the per-history loop at once.
AfterHistoriesSkipsSummary == "export"

\* Where the Drive branch goes once the per-history loop is over.
AfterHistories == IF profile.hasSummary THEN "dsummary" ELSE "export"

\* gdrive_utils.duplicate_master_resume: a copy with an id, a copy without an id
\* (every later Drive step is skipped), or an exception caught by the branch.
DuplicateMasterResume(w) ==
    /\ pc[w] = "dup"
    /\ \/ /\ Step(w, IF profile.nHist = 0 THEN AfterHistories ELSE "patch",
                  0, pdfId[w], jobId[w])
          /\ Issue(w, "duplicate")
          /\ Calm
       \/ FinishJob(w) /\ Issue(w, "duplicate_no_id") /\ Calm
       \/ FinishJob(w) /\ Issue(w, "duplicate") /\ Fails(w, "logged")
    /\ NoWrite
    /\ Const

\* One iteration of the per-history Drive loop.  A history without an achievements
\* block or without rewritten text is skipped (the first nBlocks histories are the
\* ones that have both); for the others replace_text_block_flexible is called,
\* then the replace_text_in_doc fallback when it reports updated = False (a block
\* found by neither is left as it is); exceptions are logged.
DrivePatchHistory(w) ==
    /\ pc[w] = "patch"
    /\ hidx[w] < profile.nHist
    /\ Step(w, IF hidx[w] + 1 = profile.nHist THEN AfterHistories ELSE "patch",
            hidx[w] + 1, pdfId[w], jobId[w])
    /\ \/ /\ hidx[w] < profile.nBlocks
          /\ Issue(w, "patch")
          /\ \/ Calm
             \/ Misses(w)
             \/ Fails(w, "logged")
       \/ /\ hidx[w] >= profile.nBlocks
          /\ UNCHANGED calls
          /\ Calm
    /\ NoWrite
    /\ Const

\* Replace (or, when the replace raises, prepend) the summary in the Drive doc.
DrivePatchSummary(w) ==
    /\ pc[w] = "dsummary"
    /\ Goto(w, "export")
    /\ \/ Calm
       \/ Misses(w)
       \/ Fails(w, "logged")
    /\ Issue(w, "patch_summary")
    /\ NoWrite
    /\ Const

\* gdrive_utils.export_doc_to_pdf; an exception is logged and leaves gdrive_pdf_id None,
\* and then the function returns.
ExportPdf(w) ==
    /\ pc[w] = "export"
    /\ \/ /\ Step(w, "pdfupdate", hidx[w], TRUE, jobId[w])
          /\ Calm
       \/ FinishJob(w) /\ Fails(w, "logged")
    /\ Issue(w, "export")
    /\ NoWrite
    /\ Const

\* update({"gdrive_pdf_resume_id": ...}); a failure is re-raised into the outer handler.
UpdatePdfId(w) ==
    /\ pc[w] = "pdfupdate"
    /\ \/ /\ rows' = [rows EXCEPT ![cur[w]].pdf = TRUE]
          /\ UNCHANGED <<ran, termWrites>>
          /\ FinishJob(w)
          /\ UNCHANGED calls
          /\ Calm
       \/ /\ Goto(w, "handler")
          /\ UNCHANGED calls
          /\ Fails(w, "external")
          /\ NoWrite
    /\ Const

\* The outer `except Exception` of run_tailoring_process: update({"status": "failed"});
\* the exception is swallowed, and one raised by the update reaches the worker.
HandlerMarkFailed(w) ==
    /\ pc[w] = "handler"
    /\ \/ /\ WriteTerminal(cur[w], "failed", NoFields)
          /\ FinishJob(w)
          /\ UNCHANGED calls
          /\ Calm
       \/ /\ Goto(w, "wexcept")
          /\ UNCHANGED calls
          /\ Fails(w, "external")
          /\ NoWrite
    /\ Const

\* The worker's `except Exception` around run_tailoring_process.
WorkerMarkFailed(w) ==
    /\ pc[w] = "wexcept"
    /\ \/ /\ WriteTerminal(cur[w], "failed", NoFields)
          /\ FinishJob(w)
          /\ UNCHANGED calls
          /\ Calm
       \/ /\ LoopError(w)
          /\ UNCHANGED calls
          /\ Fails(w, "external")
          /\ NoWrite
    /\ Const

\* --- run_resume_check_process and the resume-check worker

\* The rows that eq("user_id", ..).eq("job_post", ..) selects for the row being processed.
SameKey(id) == {i \in 1..Len(rows) : rows[i].key = rows[id].key}

\* The lookup of "the corresponding row": limit(1) without an order; a failed
\* select is logged and leaves job_id None.  Then the resume is fetched when the
\* row has none; a failed fetch, or a profile without a resume, is raised.
LookupJobRow(w) ==
    /\ pc[w] = "check"
    /\ \/ \E i \in SameKey(cur[w]) : Step(w, "quals", hidx[w], pdfId[w], i) /\ Calm
       \/ Step(w, "quals", hidx[w], pdfId[w], 0) /\ Fails(w, "logged")
       \/ Goto(w, "rfail") /\ Fails(w, "external")
    /\ UNCHANGED calls
    /\ NoWrite
    /\ Const

\* Qualifications are taken from the row or extracted by the provider (a failure
\* fails the job), then saved to the row job_id names (a failed save is logged).
PersistQualifications(w) ==
    /\ pc[w] = "quals"
    /\ \/ /\ jobId[w] # 0
          /\ rows' = [rows EXCEPT ![jobId[w]].quals = TRUE]
          /\ UNCHANGED <<ran, termWrites>>
          /\ Goto(w, "score")
          /\ Calm
       \/ /\ Goto(w, "score")
          /\ NoWrite
          /\ IF jobId[w] # 0 THEN Fails(w, "logged") ELSE Calm
       \/ /\ Goto(w, "rfail")
          /\ NoWrite
          /\ Fails(w, "external")
    /\ UNCHANGED calls
    /\ Const

\* llm_service.score_resume and check_resume, then csv_to_score in the worker.
ScoreResume(w) ==
    /\ pc[w] = "score"
    /\ \/ Goto(w, "rcomplete") /\ Calm
       \/ Goto(w, "rfail") /\ Fails(w, "external")
    /\ UNCHANGED calls
    /\ NoWrite
    /\ Const

\* update({"status": "completed", analysis, score, ...}); inside the worker's try.
CheckCompleted(w) ==
    /\ pc[w] = "rcomplete"
    /\ \/ /\ WriteTerminal(cur[w], "completed",
                          [final |-> TRUE, summary |-> "none", error |-> NoError])
          /\ FinishJob(w)
          /\ UNCHANGED calls
          /\ Calm
       \/ /\ Goto(w, "rfail")
          /\ UNCHANGED calls
          /\ Fails(w, "external")
          /\ NoWrite
    /\ Const

\* The lengths str(e) is drawn from: empty, and longer than the limit.
MessageLengths == {0, ErrorLimit + 1}

\* The worker's except: update({"status": "failed", "error": str(e)[:2000]}).
CheckFailed(w) ==
    /\ pc[w] = "rfail"
    /\ \/ /\ \E n \in MessageLengths :
                WriteTerminal(cur[w], "failed",
                    [final |-> FALSE, summary |-> "none", error |-> Min(n, ErrorLimit)])
          /\ FinishJob(w)
          /\ UNCHANGED calls
          /\ Calm
       \/ /\ LoopError(w)
          /\ UNCHANGED calls
          /\ Fails(w, "external")
          /\ NoWrite
    /\ Const

\* The worker process dies while it processes a row (after the claim, before the
\* iteration ends): its loop takes no further step, its locals are gone, and cur
\* keeps the row it held.
Crash(w) ==
    /\ pc[w] \notin {"poll", "claim", "dead"}
    /\ pc' = [pc EXCEPT ![w] = "dead"]
    /\ batch' = [batch EXCEPT ![w] = <<>>]
    /\ calls' = [calls EXCEPT ![w] = <<>>]
    /\ ResetLocals(w)
    /\ UNCHANGED cur
    /\ NoWrite
    /\ Calm
    /\ Const

WorkerStep(w) ==
    \/ Poll(w)
    \/ Claim(w)
    \/ FetchData(w)
    \/ AnalyzeJobDescription(w)
    \/ RewriteJobHistory(w)
    \/ AssembleResume(w)
    \/ GenerateSummary(w)
    \/ UpdateCompleted(w)
    \/ DuplicateMasterResume(w)
    \/ DrivePatchHistory(w)
    \/ DrivePatchSummary(w)
    \/ ExportPdf(w)
    \/ UpdatePdfId(w)
    \/ HandlerMarkFailed(w)
    \/ WorkerMarkFailed(w)
    \/ LookupJobRow(w)
    \/ PersistQualifications(w)
    \/ ScoreResume(w)
    \/ CheckCompleted(w)
    \/ CheckFailed(w)

\* ----------------------------------------------------------- text and regex

\* Text is a sequence of characters; the characters that matter are named.
\* "SP" space, "LF" \n, "CR" \r, "NBSP" U+00A0, "ZWSP" U+200B.

\* str.isspace() and the regex class \s: U+00A0 is whitespace, U+200B is not.
IsSpace(c) == c \in {"SP", "LF", "CR", "NBSP"}

\* ch.isspace() or ch in ("\u00A0", "\u200B"), and the class [\s\u00A0\u200B].
IsFlexWs(c) == IsSpace(c) \/ c \in {"NBSP", "ZWSP"}

\* The bullet glyphs [\*\-\u2022\u2013\u2014], the digits \d and the number marks [\.)] of the alphabet.
Glyphs == {"-"}

Digits == {"1"}

NumMarks == {"."}

\* The token r"[\s\u00A0\u200B]+" of a compiled pattern; every other token is re.escape(ch).
WsToken == "WS+"

Max(S) == CHOOSE x \in S : \A y \in S : y <= x

MinOf(S) == CHOOSE x \in S : \A y \in S : x <= y

\* str.splitlines(): breaks at \n, \r and \r\n (one break); no empty last line.
RECURSIVE SplitFrom(_, _, _)
SplitFrom(s, i, line) ==
    IF i > Len(s) THEN (IF line = <<>> THEN <<>> ELSE <<line>>)
    ELSE IF s[i] = "CR" /\ i < Len(s) /\ s[i + 1] = "LF"
         THEN <<line>> \o SplitFrom(s, i + 2, <<>>)
    ELSE IF s[i] \in {"LF", "CR"} THEN <<line>> \o SplitFrom(s, i + 1, <<>>)
    ELSE SplitFrom(s, i + 1, Append(line, s[i]))

SplitLines(s) == SplitFrom(s, 1, <<>>)

\* Number of characters from position i on (1-based) that satisfy IsSpace.
RECURSIVE SpaceRun(_, _)
SpaceRun(s, i) ==
    IF i <= Len(s) /\ IsSpace(s[i]) THEN 1 + SpaceRun(s, i + 1) ELSE 0

RECURSIVE DigitRun(_, _)
DigitRun(s, i) ==
    IF i <= Len(s) /\ s[i] \in Digits THEN 1 + DigitRun(s, i + 1) ELSE 0

\* m.end() of re.compile(r"^\s*(?:[\*\-\u2022\u2013\u2014]\s+|\d+[\.)]\s+)").match(line); -1 for no match.
BulletPrefixEnd(line) ==
    LET lead == SpaceRun(line, 1)
        g == lead + 1
        d == DigitRun(line, g)
    IN  IF g <= Len(line) /\ line[g] \in Glyphs /\ SpaceRun(line, g + 1) > 0
        THEN g + SpaceRun(line, g + 1)
        ELSE IF d > 0 /\ g + d <= Len(line) /\ line[g + d] \in NumMarks
                /\ SpaceRun(line, g + d + 1) > 0
        THEN g + d + SpaceRun(line, g + d + 1)
        ELSE -1

\* The loop shared by the pattern builders: a whitespace run becomes one WsToken,
\* any other character itself.
RECURSIVE PartsFrom(_, _)
PartsFrom(s, i) ==
    IF i > Len(s) THEN <<>>
    ELSE IF IsFlexWs(s[i])
         THEN IF i > 1 /\ IsFlexWs(s[i - 1]) THEN PartsFrom(s, i + 1)
              ELSE <<WsToken>> \o PartsFrom(s, i + 1)
    ELSE <<s[i]>> \o PartsFrom(s, i + 1)

\* _flexible_pattern_from_block (resume_service) and _pattern_from_block.
FlexiblePatternFromBlock(b) == PartsFrom(b, 1)

\* Mutant: the bullet prefix is kept in the pattern.
LineBodyKeepsPrefix(line) == line

\* The body of a line: the line without its bullet prefix.
LineBody(line) ==
    LET e == BulletPrefixEnd(line)
    IN  IF e < 0 THEN line ELSE SubSeq(line, e + 1, Len(line))

RECURSIVE DocsPartsFrom(_, _)
DocsPartsFrom(lines, idx) ==
    IF idx > Len(lines) THEN <<>>
    ELSE PartsFrom(LineBody(lines[idx]), 1)
         \o (IF idx < Len(lines) THEN <<WsToken>> ELSE <<>>)
         \o DocsPartsFrom(lines, idx + 1)

\* _pattern_from_block_docs.
PatternFromBlockDocs(b) == DocsPartsFrom(SplitLines(b), 1)

\* The offsets reachable from the offsets P by matching one token.
Advance(tok, text, P) ==
    IF tok = WsToken
    THEN {q \in 1..Len(text) :
            \E p \in P : p < q /\ \A k \in (p + 1)..q : IsFlexWs(text[k])}
    ELSE {p + 1 : p \in {x \in P : x < Len(text) /\ text[x + 1] = tok}}

RECURSIVE EndsFrom(_, _, _, _)
EndsFrom(pat, k, text, P) ==
    IF k > Len(pat) \/ P = {} THEN P
    ELSE EndsFrom(pat, k + 1, text, Advance(pat[k], text, P))

\* The end offsets of the matches of pat that start at offset i (0-based).
MatchEnds(pat, text, i) == EndsFrom(pat, 1, text, {i})

NoMatch == [found |-> FALSE, start |-> 0, end |-> 0]

\* pattern.search(text): the leftmost match; the tokens are greedy, and a literal is
\* never whitespace, so the match found from a start is the longest one.
Search(pat, text) ==
    LET starts == {i \in 0..Len(text) : MatchEnds(pat, text, i) # {}}
    IN  IF starts = {} THEN NoMatch
        ELSE [found |-> TRUE, start |-> MinOf(starts),
              end |-> Max(MatchEnds(pat, text, MinOf(starts)))]

\* --- inputs of the matcher

JobIdle ==
    /\ kind = "tailoring"
    /\ rows = <<>>
    /\ pc = [w \in Workers |-> "poll"]
    /\ batch = [w \in Workers |-> <<>>]
    /\ cur = [w \in Workers |-> 0]
    /\ hidx = [w \in Workers |-> 0]
    /\ pdfId = [w \in Workers |-> FALSE]
    /\ jobId = [w \in Workers |-> 0]
    /\ profile = NoProfile
    /\ ran = <<>>
    /\ termWrites = <<>>
    /\ faults = <<>>
    /\ missed = <<>>
    /\ calls = [w \in Workers |-> <<>>]

WsChars == {"SP", "LF", "CR", "NBSP", "ZWSP"}

RawChars == {"A", "B", "SP", "LF"}

SeqsUpTo(S, n) == UNION {[1..k -> S] : k \in 1..n}

RECURSIVE Rep(_, _)
Rep(r, n) == IF n = 0 THEN <<>> ELSE r \o Rep(r, n - 1)

\* The whitespace runs put into a target: one character repeated, or CR LF pairs.
WsRuns ==
    {Rep(<<c>>, n) : c \in WsChars, n \in 1..MaxWsRun}
        \cup {Rep(<<"CR", "LF">>, n) : n \in 1..(MaxWsRun \div 2)}

\* Lines given as a list prefix and a body (no prefix: <<>>).
ListItems ==
    { [prefix |-> <<"-", "SP">>, body |-> <<"A">>],
      [prefix |-> <<"-", "SP">>, body |-> <<"B", "SP", "A">>],
      [prefix |-> <<"1", ".", "SP">>, body |-> <<"B">>],
      [prefix |-> <<"SP", "-", "NBSP", "SP">>, body |-> <<"A", "SP">>],
      [prefix |-> <<"-", "SP">>, body |-> <<>>],
      [prefix |-> <<"-", "SP">>, body |-> <<"ZWSP", "B">>],
      [prefix |-> <<>>, body |-> <<"A">>],
      [prefix |-> <<>>, body |-> <<"B", "SP", "A">>] }

LineSeps == {<<"LF">>, <<"CR", "LF">>}

RECURSIVE JoinFrom(_, _, _)
JoinFrom(ls, i, sep) ==
    IF i > Len(ls) THEN <<>>
    ELSE ls[i] \o (IF i < Len(ls) THEN sep ELSE <<>>) \o JoinFrom(ls, i + 1, sep)

Join(ls, sep) == JoinFrom(ls, 1, sep)

\* The 1-based starts of the maximal whitespace runs of s, and the length of a run.
RunStarts(s) ==
    {i \in 1..Len(s) : IsFlexWs(s[i]) /\ (i = 1 \/ ~IsFlexWs(s[i - 1]))}

RECURSIVE FlexRun(_, _)
FlexRun(s, i) ==
    IF i <= Len(s) /\ IsFlexWs(s[i]) THEN 1 + FlexRun(s, i + 1) ELSE 0

\* s with the maximal whitespace run that starts at i replaced by r.
ReplaceRun(s, i, r) ==
    SubSeq(s, 1, i - 1) \o r \o SubSeq(s, i + FlexRun(s, i), Len(s))

MatchIdle ==
    /\ block = <<>>
    /\ lineBodies = <<>>
    /\ target = <<>>
    /\ how = "none"
    /\ searched = FALSE
    /\ mDocs = NoMatch
    /\ mFlex = NoMatch

MatchInit ==
    /\ \/ /\ block \in SeqsUpTo(RawChars, MaxBlockLen)
          /\ lineBodies = <<>>
       \/ \E items \in SeqsUpTo(ListItems, MaxLines), sep \in LineSeps :
            /\ block = Join([i \in 1..Len(items) |-> items[i].prefix \o items[i].body], sep)
            /\ lineBodies = IF \A i \in 1..Len(items) : items[i].prefix # <<>>
                            THEN [i \in 1..Len(items) |-> items[i].body]
                            ELSE <<>>
    /\ target = <<>>
    /\ how = "none"
    /\ searched = FALSE
    /\ mDocs = NoMatch
    /\ mFlex = NoMatch

\* A target that differs from the block in one maximal whitespace run, replaced by
\* another non-empty whitespace run.
VaryWhitespace ==
    /\ how = "none"
    /\ \E i \in RunStarts(block), r \in WsRuns : target' = ReplaceRun(block, i, r)
    /\ how' = "ws"
    /\ UNCHANGED <<block, lineBodies, searched, mDocs, mFlex, jobVars, parseVars, snapVars, patchVars>>

\* A target in which one whitespace run of the block is absent.
DropWhitespaceRun ==
    /\ how = "none"
    /\ \E i \in RunStarts(block) : target' = ReplaceRun(block, i, <<>>)
    /\ how' = "nows"
    /\ UNCHANGED <<block, lineBodies, searched, mDocs, mFlex, jobVars, parseVars, snapVars, patchVars>>

\* The text of bulleted paragraphs: the line bodies without any literal glyph, one
\* paragraph per line, the last paragraph's newline present or not.
StripGlyphs ==
    /\ how = "none"
    /\ lineBodies # <<>>
    /\ \E nl \in {<<>>, <<"LF">>} : target' = Join(lineBodies, <<"LF">>) \o nl
    /\ how' = "bullets"
    /\ UNCHANGED <<block, lineBodies, searched, mDocs, mFlex, jobVars, parseVars, snapVars, patchVars>>

\* pattern.search(target) with the pattern of each builder.
SearchBlock ==
    /\ how # "none"
    /\ ~searched
    /\ searched' = TRUE
    /\ mDocs' = Search(PatternFromBlockDocs(block), target)
    /\ mFlex' = Search(FlexiblePatternFromBlock(block), target)
    /\ UNCHANGED <<block, lineBodies, target, how, jobVars, parseVars, snapVars, patchVars>>

MatchNext == VaryWhitespace \/ DropWhitespaceRun \/ StripGlyphs \/ SearchBlock


\* ------------------------------------------------- parse_resume_to_json

\* for attempt in range(1, 4)
MaxAttempts == 3

\* The items of a parsed ResumeHistoryExtraction.
ResumeHistoryItems ==
    {[history_job_title |-> "T1", history_company_name |-> "C1", history_job_achievements |-> "A1"],
     [history_job_title |-> "T2", history_company_name |-> "C2", history_job_achievements |-> "A2"]}

\* msg.parsed is None.
NoPayload == [present |-> FALSE, jobs |-> <<>>]

Payloads == {[present |-> TRUE, jobs |-> js] : js \in SeqsUpTo(ResumeHistoryItems, MaxParsedJobs)}

\* What client.chat.completions.parse does: it raises APIError, raises something
\* else, or returns a message whose refusal attribute is absent, empty or a text.
ProviderReplies ==
    {[kind |-> "APIError"], [kind |-> "Exception"]}
        \cup {[kind |-> "message", refusal |-> r, parsed |-> p] :
                r \in {"absent", "empty", "text"}, p \in Payloads \cup {NoPayload}}

\* A mutation of IsRefused: a refusal attribute that is present counts, empty or not.
IsRefusedWhenPresent(msg) == msg.refusal # "absent"

\* refused = hasattr(msg, "refusal") and bool(getattr(msg, "refusal"))
IsRefused(msg) == msg.refusal = "text"

\* What call_llm_with_structured_output returns or raises.
Returned(parsed, refused) == [kind |-> "returned", parsed |-> parsed, refused |-> refused]
RaisedError(e) == [kind |-> "raised", error |-> e]
NotCalled == [kind |-> "none"]

\* call_llm_with_structured_output, given what the provider does.
CallLlmWithStructuredOutput(reply) ==
    IF reply.kind # "message" THEN RaisedError(reply.kind)
    ELSE IF IsRefused(reply) THEN Returned(NoPayload, TRUE)
    ELSE IF reply.parsed = NoPayload THEN RaisedError("ValueError")
    ELSE Returned(reply.parsed, FALSE)

\* The List[dict] built from parsed.jobs.
ToDicts(parsed) ==
    [i \in 1..Len(parsed.jobs) |->
        [history_job_title |-> parsed.jobs[i].history_job_title,
         history_company_name |-> parsed.jobs[i].history_company_name,
         history_job_achievements |-> parsed.jobs[i].history_job_achievements]]

Running == [kind |-> "running"]
ParseReturned(r) == [kind |-> "returned", result |-> r]

ParseIdle ==
    /\ hasKey = FALSE
    /\ attempt = 0
    /\ ppc = "idle"
    /\ structured = NotCalled
    /\ replies = <<>>
    /\ parseResult = Running

\* parse_resume_to_json is entered, with or without GROQ_API_KEY in the environment.
ParseInit ==
    /\ hasKey \in BOOLEAN
    /\ attempt = 1
    /\ ppc = "call"
    /\ structured = NotCalled
    /\ replies = <<>>
    /\ parseResult = Running

ParseFrame == UNCHANGED <<hasKey, jobVars, matchVars, snapVars, patchVars>>

\* One call of call_llm_with_structured_output in the loop: without an API key it
\* raises before any request; otherwise one request is sent to the provider.
CallStructured ==
    /\ ppc = "call"
    /\ \/ /\ ~hasKey
          /\ structured' = RaisedError("ValueError")
          /\ UNCHANGED replies
       \/ /\ hasKey
          /\ \E reply \in ProviderReplies :
                /\ structured' = CallLlmWithStructuredOutput(reply)
                /\ replies' = Append(replies, reply)
    /\ ppc' = "handle"
    /\ UNCHANGED <<attempt, parseResult>>
    /\ ParseFrame

\* The rest of the loop body: continue on a refusal, return the converted result,
\* or re-raise what the call raised.
HandleAttempt ==
    /\ ppc = "handle"
    /\ \/ /\ structured.kind = "raised"
          /\ parseResult' = structured
          /\ ppc' = "done"
          /\ UNCHANGED attempt
       \/ /\ structured.kind = "returned"
          /\ structured.refused
          /\ attempt' = attempt + 1
          /\ ppc' = IF attempt < MaxAttempts THEN "call" ELSE "exhausted"
          /\ UNCHANGED parseResult
       \/ /\ structured.kind = "returned"
          /\ ~structured.refused
          /\ parseResult' = ParseReturned(ToDicts(structured.parsed))
          /\ ppc' = "done"
          /\ UNCHANGED attempt
    /\ UNCHANGED <<structured, replies>>
    /\ ParseFrame

\* After the loop: raise ValueError("The AI refused to process the resume three times...").
RaiseRefused ==
    /\ ppc = "exhausted"
    /\ parseResult' = RaisedError("refused")
    /\ ppc' = "done"
    /\ UNCHANGED <<attempt, structured, replies>>
    /\ ParseFrame

ParseNext == CallStructured \/ HandleAttempt \/ RaiseRefused

\* ------------------------------------------------------------ document values

\* A document value as documents().get() returns it is its body.content: a sequence
\* of structural elements.  A paragraph has startIndex, endIndex, an optional bullet
\* and its elements (text runs and other inline elements); a table has its cells in
\* reading order (tableRows, then tableCells), each cell holding a content sequence.

\* A startIndex / endIndex that is absent from the element (None).
NoIndex == -1

\* isinstance(x, int) / x is not None.
HasIndex(x) == x # NoIndex

TextRun(s, e, text) ==
    [startIndex |-> s, endIndex |-> e, textRun |-> TRUE, content |-> text]

\* A paragraph element without a textRun (an inline object, a page break, ...).
InlineObject(s, e) ==
    [startIndex |-> s, endIndex |-> e, textRun |-> FALSE, content |-> <<>>]

Paragraph(s, e, b, els) ==
    [kind |-> "paragraph", startIndex |-> s, endIndex |-> e, bullet |-> b,
     elements |-> els, cells |-> <<>>]

Table(s, e, cs) ==
    [kind |-> "table", startIndex |-> s, endIndex |-> e, bullet |-> FALSE,
     elements |-> <<>>, cells |-> cs]

\* The first element of every body: it has no paragraph and no startIndex.
SectionBreak ==
    [kind |-> "sectionBreak", startIndex |-> NoIndex, endIndex |-> 1, bullet |-> FALSE,
     elements |-> <<>>, cells |-> <<>>]

EmptySnapshot == [flat_parts |-> <<>>, segments |-> <<>>, flat_offset |-> 0]

\* Mutant: a run that is skipped still advances the flat offset.
RECURSIVE FlattenElementsCountsSkipped(_, _, _)
FlattenElementsCountsSkipped(els, i, acc) ==
    IF i > Len(els) THEN acc
    ELSE LET pe == els[i]
             text == pe.content
             flat_start == acc.flat_offset
             flat_end == flat_start + Len(text)
         IN  IF ~pe.textRun \/ text = <<>>
                \/ ~HasIndex(pe.startIndex) \/ ~HasIndex(pe.endIndex)
             THEN FlattenElementsCountsSkipped(els, i + 1,
                    [acc EXCEPT !.flat_offset = flat_end])
             ELSE FlattenElementsCountsSkipped(els, i + 1,
                    [flat_parts |-> acc.flat_parts \o text,
                     segments |-> Append(acc.segments,
                                    [flat_start |-> flat_start, flat_end |-> flat_end,
                                     doc_start |-> pe.startIndex, doc_end |-> pe.endIndex,
                                     text |-> text]),
                     flat_offset |-> flat_end])

\* The inner loop of _flatten_doc_text_with_map over one paragraph's elements.
RECURSIVE FlattenElements(_, _, _)
FlattenElements(els, i, acc) ==
    IF i > Len(els) THEN acc
    ELSE LET pe == els[i]
             text == pe.content
             flat_start == acc.flat_offset
             flat_end == flat_start + Len(text)
         IN  IF ~pe.textRun \/ text = <<>>
                \/ ~HasIndex(pe.startIndex) \/ ~HasIndex(pe.endIndex)
             THEN FlattenElements(els, i + 1, acc)
             ELSE FlattenElements(els, i + 1,
                    [flat_parts |-> acc.flat_parts \o text,
                     segments |-> Append(acc.segments,
                                    [flat_start |-> flat_start, flat_end |-> flat_end,
                                     doc_start |-> pe.startIndex, doc_end |-> pe.endIndex,
                                     text |-> text]),
                     flat_offset |-> flat_end])

\* The outer loop: only top-level paragraphs are read, anything else is ignored.
RECURSIVE FlattenContent(_, _, _)
FlattenContent(content, i, acc) ==
    IF i > Len(content) THEN acc
    ELSE FlattenContent(content, i + 1,
            IF content[i].kind = "paragraph"
            THEN FlattenElements(content[i].elements, 1, acc)
            ELSE acc)

\* _flatten_doc_text_with_map: (flat_text, segments).
FlattenDocTextWithMap(document) ==
    LET r == FlattenContent(document, 1, EmptySnapshot)
    IN  [flat_text |-> r.flat_parts, segments |-> r.segments]

\* Mutant: the offset inside the segment is not added.
MapFlatOffsetNoDelta(segments, flat_offset) ==
    LET hit == {k \in 1..Len(segments) :
                    /\ segments[k].flat_start <= flat_offset
                    /\ flat_offset <= segments[k].flat_end}
    IN  IF hit = {} THEN NoIndex
        ELSE segments[MinOf(hit)].doc_start

\* _map_flat_offset_to_doc_index: the first segment whose closed flat range holds
\* the offset; NoIndex for None.
MapFlatOffsetToDocIndex(segments, flat_offset) ==
    LET hit == {k \in 1..Len(segments) :
                    /\ segments[k].flat_start <= flat_offset
                    /\ flat_offset <= segments[k].flat_end}
    IN  IF hit = {} THEN NoIndex
        ELSE LET seg == segments[MinOf(hit)]
             IN  seg.doc_start + (flat_offset - seg.flat_start)

\* _range_overlaps.
RangeOverlaps(a_start, a_end, b_start, b_end) ==
    ~(a_end <= b_start \/ b_end <= a_start)

\* _is_list_block: some top-level paragraph with a bullet overlaps the range.
IsListBlock(document, doc_start, doc_end) ==
    \E k \in 1..Len(document) :
        /\ document[k].kind = "paragraph"
        /\ HasIndex(document[k].startIndex) /\ HasIndex(document[k].endIndex)
        /\ RangeOverlaps(document[k].startIndex, document[k].endIndex, doc_start, doc_end)
        /\ document[k].bullet

\* _strip_list_prefixes: _LIST_PREFIX_RE.sub("", line) on every line of
\* text.splitlines(), joined by "\n".
StripListPrefixes(text) ==
    LET lines == SplitLines(text)
    IN  Join([k \in 1..Len(lines) |-> LineBody(lines[k])], <<"LF">>)

\* The loop over the characters of one paragraph's elements in visit().
RECURSIVE VisitElements(_, _, _)
VisitElements(els, i, acc) ==
    IF i > Len(els) THEN acc
    ELSE LET pe == els[i]
         IN  IF ~HasIndex(pe.startIndex) \/ ~pe.textRun
             THEN VisitElements(els, i + 1, acc)
             ELSE VisitElements(els, i + 1,
                    [chars |-> acc.chars \o pe.content,
                     indices |-> acc.indices
                        \o [o \in 1..Len(pe.content) |-> pe.startIndex + (o - 1)]])

\* visit(): paragraphs, and the contents of the cells of a table, in order.
RECURSIVE Visit(_, _, _)
RECURSIVE VisitCells(_, _, _)
Visit(elements, i, acc) ==
    IF i > Len(elements) THEN acc
    ELSE LET el == elements[i]
             a1 == IF el.kind = "paragraph" THEN VisitElements(el.elements, 1, acc) ELSE acc
             a2 == IF el.kind = "table" THEN VisitCells(el.cells, 1, a1) ELSE a1
         IN  Visit(elements, i + 1, a2)

VisitCells(cells, i, acc) ==
    IF i > Len(cells) THEN acc
    ELSE VisitCells(cells, i + 1, Visit(cells[i], 1, acc))

\* _extract_text_with_index_map: (text, index of every character).
ExtractTextWithIndexMap(doc) == Visit(doc, 1, [chars |-> <<>>, indices |-> <<>>])

\* str.find(sub, start): the lowest offset >= start where sub occurs, -1 if none.
Find(text, sub, start) ==
    LET at == {p \in start..(Len(text) - Len(sub)) :
                    SubSeq(text, p + 1, p + Len(sub)) = sub}
    IN  IF at = {} THEN -1 ELSE MinOf(at)

\* Mutant: the end of an occurrence is the index of its last character.
RECURSIVE OccurrencesShortFrom(_, _, _, _)
OccurrencesShortFrom(full_text, index_map, search_text, start_pos) ==
    LET pos == Find(full_text, search_text, start_pos)
    IN  IF pos = -1 THEN <<>>
        ELSE <<[start_index |-> index_map[pos + 1],
                end_index |-> index_map[pos + Len(search_text)]]>>
             \o OccurrencesShortFrom(full_text, index_map, search_text,
                                     pos + Len(search_text))

\* The while loop of _find_text_occurrences.
RECURSIVE OccurrencesFrom(_, _, _, _)
OccurrencesFrom(full_text, index_map, search_text, start_pos) ==
    LET pos == Find(full_text, search_text, start_pos)
    IN  IF pos = -1 THEN <<>>
        ELSE <<[start_index |-> index_map[pos + 1],
                end_index |-> index_map[pos + Len(search_text)] + 1]>>
             \o OccurrencesFrom(full_text, index_map, search_text,
                                pos + Len(search_text))

\* _find_text_occurrences.
FindTextOccurrences(doc, search_text) ==
    IF search_text = <<>> THEN <<>>
    ELSE LET x == ExtractTextWithIndexMap(doc)
         IN  OccurrencesFrom(x.chars, x.indices, search_text, 0)

\* --------------------------------------------------------- snapshot builders

\* Shapes of paragraph elements: the content, the indices the element occupies, and
\* which of startIndex / endIndex the element carries.
RunShape(text, w, hs, he, tr) ==
    [content |-> text, width |-> w, hasStart |-> hs, hasEnd |-> he, textRun |-> tr]

PlainRun(text) == RunShape(text, Len(text), TRUE, TRUE, TRUE)

ElemShape(k, b, rs) == [kind |-> k, bullet |-> b, runs |-> rs]

\* Shapes of structural elements; a table has one cell holding one paragraph.
ElemShapes ==
    { ElemShape("paragraph", FALSE, <<PlainRun(<<"A", "LF">>)>>),
      ElemShape("paragraph", FALSE, <<PlainRun(<<"A">>), PlainRun(<<"B", "LF">>)>>),
      ElemShape("paragraph", TRUE, <<PlainRun(<<"B", "LF">>)>>),
      ElemShape("paragraph", FALSE,
                <<RunShape(<<"B">>, 1, FALSE, FALSE, TRUE), PlainRun(<<"A", "LF">>)>>),
      ElemShape("paragraph", FALSE,
                <<RunShape(<<>>, 1, TRUE, TRUE, FALSE), PlainRun(<<"A", "LF">>)>>),
      ElemShape("paragraph", FALSE,
                <<RunShape(<<>>, 0, TRUE, TRUE, TRUE), PlainRun(<<"B", "LF">>)>>),
      ElemShape("paragraph", FALSE,
                <<RunShape(<<"A">>, 1, TRUE, FALSE, TRUE), PlainRun(<<"LF">>)>>),
      ElemShape("paragraph", FALSE,
                <<RunShape(<<>>, 1, TRUE, TRUE, FALSE), PlainRun(<<"B", "LF">>)>>),
      ElemShape("table", FALSE, <<PlainRun(<<"B", "LF">>)>>),
      ElemShape("sectionBreak", FALSE, <<>>) }

RECURSIVE RunsWidth(_, _)
RunsWidth(rs, i) == IF i > Len(rs) THEN 0 ELSE rs[i].width + RunsWidth(rs, i + 1)

\* The paragraph elements of the shapes rs laid out from index start.
RECURSIVE LayoutRuns(_, _, _)
LayoutRuns(rs, i, start) ==
    IF i > Len(rs) THEN <<>>
    ELSE <<[startIndex |-> IF rs[i].hasStart THEN start ELSE NoIndex,
            endIndex |-> IF rs[i].hasEnd THEN start + rs[i].width ELSE NoIndex,
            textRun |-> rs[i].textRun,
            content |-> rs[i].content]>>
         \o LayoutRuns(rs, i + 1, start + rs[i].width)

\* Indices an element occupies: a table adds its start, its row, its cell and its end.
ShapeWidth(sh) ==
    CASE sh.kind = "paragraph" -> RunsWidth(sh.runs, 1)
      [] sh.kind = "table" -> RunsWidth(sh.runs, 1) + 4
      [] OTHER -> 1

LayoutElem(sh, start) ==
    CASE sh.kind = "paragraph" ->
            Paragraph(start, start + ShapeWidth(sh), sh.bullet, LayoutRuns(sh.runs, 1, start))
      [] sh.kind = "table" ->
            Table(start, start + ShapeWidth(sh),
                  << <<Paragraph(start + 3, start + 3 + RunsWidth(sh.runs, 1), FALSE,
                                 LayoutRuns(sh.runs, 1, start + 3))>> >>)
      [] OTHER -> [SectionBreak EXCEPT !.startIndex = start, !.endIndex = start + 1]

RECURSIVE Layout(_, _, _)
Layout(shs, i, start) ==
    IF i > Len(shs) THEN <<>>
    ELSE <<LayoutElem(shs[i], start)>> \o Layout(shs, i + 1, start + ShapeWidth(shs[i]))

\* The document values given to the builders.
SnapDocs == {Layout(shs, 1, 1) : shs \in SeqsUpTo(ElemShapes, MaxEls)}

NoSnapshot == [flat_text |-> <<>>, segments |-> <<>>]

NoExtract == [chars |-> <<>>, indices |-> <<>>]

\* The blocks searched in the document values: texts that are not blank.
SnapBlocks ==
    {s \in SeqsUpTo({"A", "B", "LF"}, MaxSnapBlock) : \E i \in 1..Len(s) : s[i] # "LF"}

NoPlan == [done |-> FALSE, original |-> <<>>, span |-> NoMatch, batch |-> <<>>]

SnapIdle ==
    /\ docIn = <<>>
    /\ flatDone = FALSE
    /\ snapshot = NoSnapshot
    /\ extractDone = FALSE
    /\ extracted = NoExtract
    /\ planned = NoPlan

SnapInit ==
    /\ docIn \in SnapDocs
    /\ flatDone = FALSE
    /\ snapshot = NoSnapshot
    /\ extractDone = FALSE
    /\ extracted = NoExtract
    /\ planned = NoPlan

\* ------------------------------------------------------------- Docs service

\* The document held by the Docs service: the characters of the body in index order,
\* the item at position k having index k (index 0 is the section break).  Every
\* character occupies one index; a paragraph ends with its "LF", which carries the
\* paragraph's bullet; style tells the text runs of a paragraph apart.
Item(c, st, b) == [ch |-> c, style |-> st, bullet |-> b]

\* A paragraph of one text run, and one of two runs.
Para(text, b) ==
    [k \in 1..(Len(text) + 1) |->
        IF k <= Len(text) THEN Item(text[k], "s1", FALSE) ELSE Item("LF", "s1", b)]

Para2(t1, t2, b) ==
    [k \in 1..Len(t1) |-> Item(t1[k], "s2", FALSE)] \o Para(t2, b)

TextOf(b) == [k \in 1..Len(b) |-> b[k].ch]

\* The index of the newline that ends the paragraph holding index i, and the start
\* index of the paragraph that ends at k.
ParaEndAt(b, i) == MinOf({k \in i..Len(b) : b[k].ch = "LF"})

ParaStart(b, k) == 1 + Max({j \in 1..(k - 1) : b[j].ch = "LF"} \cup {0})

\* The text runs of the items i..e of one paragraph: maximal stretches of one style.
RECURSIVE RunsFrom(_, _, _)
RunsFrom(b, i, e) ==
    IF i > e THEN <<>>
    ELSE LET j == Max({k \in i..e : \A m \in i..k : b[m].style = b[i].style})
         IN  <<TextRun(i, j + 1, TextOf(SubSeq(b, i, j)))>> \o RunsFrom(b, j + 1, e)

RECURSIVE ParagraphsFrom(_, _)
ParagraphsFrom(b, i) ==
    IF i > Len(b) THEN <<>>
    ELSE LET e == ParaEndAt(b, i)
         IN  <<Paragraph(i, e + 1, b[e].bullet, RunsFrom(b, i, e))>>
             \o ParagraphsFrom(b, e + 1)

\* docs.documents().get(documentId=file_id).execute(): the body.content of the
\* document the service holds.
GetDocument(b) == <<SectionBreak>> \o ParagraphsFrom(b, 1)

\* Request bodies as the code builds them.
NoText == <<>>

NoName == "none"

DeleteContentRange(s, e) ==
    [request |-> "deleteContentRange", startIndex |-> s, endIndex |-> e,
     text |-> NoText, containsText |-> NoText, name |-> NoName]

InsertTextAt(s, t) ==
    [request |-> "insertText", startIndex |-> s, endIndex |-> s,
     text |-> t, containsText |-> NoText, name |-> NoName]

CreateParagraphBullets(s, e) ==
    [request |-> "createParagraphBullets", startIndex |-> s, endIndex |-> e,
     text |-> NoText, containsText |-> NoText, name |-> NoName]

ReplaceAllText(find, t) ==
    [request |-> "replaceAllText", startIndex |-> 0, endIndex |-> 0,
     text |-> t, containsText |-> find, name |-> NoName]

CreateNamedRange(range_name, s, e) ==
    [request |-> "createNamedRange", startIndex |-> s, endIndex |-> e,
     text |-> NoText, containsText |-> NoText, name |-> range_name]

ReplaceNamedRangeContent(range_name, t) ==
    [request |-> "replaceNamedRangeContent", startIndex |-> 0, endIndex |-> 0,
     text |-> t, containsText |-> NoText, name |-> range_name]

DeleteNamedRange(range_name) ==
    [request |-> "deleteNamedRange", startIndex |-> 0, endIndex |-> 0,
     text |-> NoText, containsText |-> NoText, name |-> range_name]

\* The effect of deleteContentRange on [s, e): the items go; when a paragraph end
\* goes with them the paragraphs around the range merge, and the merged paragraph
\* has the paragraph style of the first or of the last of them (keep).
DeleteItems(b, s, e, keep) ==
    LET merges == \E k \in s..(e - 1) : b[k].ch = "LF"
        last == ParaEndAt(b, e)
        b1 == IF merges /\ keep = "first"
              THEN [b EXCEPT ![last].bullet = b[ParaEndAt(b, s)].bullet]
              ELSE b
    IN  SubSeq(b1, 1, s - 1) \o SubSeq(b1, e, Len(b1))

\* The effect of insertText at index i: the text takes the style st; a newline in
\* it ends a paragraph that has the style of the paragraph written into.
InsertItems(b, i, t, st) ==
    LET bl == b[ParaEndAt(b, i)].bullet
    IN  SubSeq(b, 1, i - 1)
        \o [k \in 1..Len(t) |-> Item(t[k], st, t[k] = "LF" /\ bl)]
        \o SubSeq(b, i, Len(b))

\* Inserted text is styled like the text before it in the paragraph, if any.
StyleAt(b, i) ==
    IF i > 1 /\ b[i - 1].ch # "LF" THEN b[i - 1].style ELSE b[i].style

\* The effect of createParagraphBullets: every paragraph overlapping [s, e).
BulletItems(b, s, e) ==
    [k \in 1..Len(b) |->
        IF b[k].ch = "LF" /\ ParaStart(b, k) < e /\ s < k + 1
        THEN [b[k] EXCEPT !.bullet = TRUE] ELSE b[k]]

\* Replacing the content of [s, e) by text that keeps the style of what it replaces.
ReplaceItems(b, s, e, t, keep) ==
    LET st == b[s].style
        d == DeleteItems(b, s, e, keep)
    IN  IF t = <<>> THEN d ELSE InsertItems(d, s, t, st)

\* The starts (0-based) of the occurrences of find the service replaces: left to
\* right, not overlapping; the final newline of the body is not part of any.
RECURSIVE ServiceMatches(_, _, _)
ServiceMatches(text, find, from) ==
    LET pos == Find(SubSeq(text, 1, Len(text) - 1), find, from)
    IN  IF pos = -1 THEN <<>>
        ELSE <<pos>> \o ServiceMatches(text, find, pos + Len(find))

\* The effect of replaceAllText: every occurrence, the last one first.
RECURSIVE ReplaceMatches(_, _, _, _, _)
ReplaceMatches(b, ms, n, r, keep) ==
    IF n = 0 THEN b
    ELSE ReplaceMatches(
            ReplaceItems(b, ms[n] + 1, ms[n] + 1 + Len(r.containsText), r.text, keep),
            ms, n - 1, r, keep)

\* The named range of the document called name.
Named(nr, name) == CHOOSE x \in nr : x.name = name

\* The requests the service accepts on a body b with the named ranges nr
\* (records of a name and [s, e)); any other request fails the whole batch.
Accepts(b, nr, r) ==
    CASE r.request = "deleteContentRange" ->
            1 <= r.startIndex /\ r.startIndex < r.endIndex /\ r.endIndex <= Len(b)
      [] r.request = "insertText" ->
            1 <= r.startIndex /\ r.startIndex <= Len(b) /\ r.text # <<>>
      [] r.request = "createParagraphBullets" ->
            1 <= r.startIndex /\ r.startIndex < r.endIndex /\ r.endIndex <= Len(b) + 1
      [] r.request = "replaceAllText" -> r.containsText # <<>>
      [] r.request = "createNamedRange" ->
            1 <= r.startIndex /\ r.startIndex < r.endIndex /\ r.endIndex <= Len(b)
      [] r.request = "replaceNamedRangeContent" -> \E x \in nr : x.name = r.name
      [] r.request = "deleteNamedRange" -> \E x \in nr : x.name = r.name

\* The body after one accepted request.
Effect(b, nr, r, keep) ==
    CASE r.request = "deleteContentRange" -> DeleteItems(b, r.startIndex, r.endIndex, keep)
      [] r.request = "insertText" ->
            InsertItems(b, r.startIndex, r.text, StyleAt(b, r.startIndex))
      [] r.request = "createParagraphBullets" -> BulletItems(b, r.startIndex, r.endIndex)
      [] r.request = "replaceAllText" ->
            LET ms == ServiceMatches(TextOf(b), r.containsText, 0)
            IN  ReplaceMatches(b, ms, Len(ms), r, keep)
      [] r.request = "createNamedRange" -> b
      [] r.request = "replaceNamedRangeContent" ->
            ReplaceItems(b, Named(nr, r.name).startIndex, Named(nr, r.name).endIndex,
                         r.text, keep)
      [] r.request = "deleteNamedRange" -> b

\* The named ranges after one accepted request: a range follows the content put
\* into it.
RangeAfter(nr, r) ==
    CASE r.request = "createNamedRange" ->
            nr \cup {[name |-> r.name, startIndex |-> r.startIndex,
                      endIndex |-> r.endIndex]}
      [] r.request = "replaceNamedRangeContent" ->
            {IF x.name = r.name
             THEN [x EXCEPT !.endIndex = x.startIndex + Len(r.text)] ELSE x : x \in nr}
      [] r.request = "deleteNamedRange" -> {x \in nr : x.name # r.name}
      [] OTHER -> nr

\* documents().batchUpdate(body={"requests": requests}).execute(): the requests are
\* applied in order and all or none; ok is FALSE when the call raises.
RECURSIVE ApplyRequests(_, _, _, _, _)
ApplyRequests(b, nr, requests, i, keep) ==
    IF i > Len(requests) THEN [ok |-> TRUE, body |-> b, namedRanges |-> nr]
    ELSE IF ~Accepts(b, nr, requests[i])
    THEN [ok |-> FALSE, body |-> b, namedRanges |-> nr]
    ELSE ApplyRequests(Effect(b, nr, requests[i], keep), RangeAfter(nr, requests[i]),
                       requests, i + 1, keep)

BatchUpdate(b, requests, keep) ==
    LET r == ApplyRequests(b, {}, requests, 1, keep)
    IN  IF r.ok THEN r ELSE [ok |-> FALSE, body |-> b, namedRanges |-> {}]

\* ------------------------------------------------------------ patch applier

NotUpdated == [updated |-> FALSE, matches |-> 0, raised |-> FALSE]

Updated(n) == [updated |-> TRUE, matches |-> n, raised |-> FALSE]

\* An HTTPException leaves the function instead of a result.
Raised == [updated |-> FALSE, matches |-> 0, raised |-> TRUE]

NoBatch == [raises |-> FALSE, requests |-> <<>>, result |-> NotUpdated]

\* Mutant: a block that is not found is put at the top of the document.
FlexiblePlanPrepends(document, original_text, final_text) ==
    IF original_text = <<>> THEN NoBatch
    ELSE LET snap == FlattenDocTextWithMap(document)
             m == Search(PatternFromBlockDocs(original_text), snap.flat_text)
         IN  [raises |-> FALSE,
              requests |-> <<InsertTextAt(1, final_text)>>,
              result |-> Updated(IF m.found THEN 1 ELSE 0)]

FlexiblePlanInsertsFirst(document, original_text, final_text) ==
    IF original_text = <<>> THEN NoBatch
    ELSE LET snap == FlattenDocTextWithMap(document)
             m == Search(PatternFromBlockDocs(original_text), snap.flat_text)
             doc_start == MapFlatOffsetToDocIndex(snap.segments, m.start)
             doc_end == MapFlatOffsetToDocIndex(snap.segments, m.end)
         IN  IF ~m.found THEN NoBatch
             ELSE [raises |-> FALSE,
                   requests |->
                        <<InsertTextAt(doc_start, final_text),
                          DeleteContentRange(doc_start + Len(final_text),
                                             doc_end + Len(final_text))>>,
                   result |-> Updated(1)]

FlexiblePlanKeepsPrefixes(document, original_text, final_text) ==
    IF original_text = <<>> THEN NoBatch
    ELSE LET snap == FlattenDocTextWithMap(document)
             m == Search(PatternFromBlockDocs(original_text), snap.flat_text)
             doc_start == MapFlatOffsetToDocIndex(snap.segments, m.start)
             doc_end == MapFlatOffsetToDocIndex(snap.segments, m.end)
             make_list == IsListBlock(document, doc_start, doc_end)
         IN  IF ~m.found THEN NoBatch
             ELSE [raises |-> FALSE,
                   requests |->
                        <<DeleteContentRange(doc_start, doc_end),
                          InsertTextAt(doc_start, final_text)>>
                        \o (IF make_list /\ final_text # <<>>
                            THEN <<CreateParagraphBullets(doc_start,
                                        doc_start + Len(final_text))>>
                            ELSE <<>>),
                   result |-> Updated(1)]

\* replace_text_block_flexible up to its batchUpdate call: the requests it sends
\* (none: it returns before) and the result it returns when the call succeeds.
FlexiblePlan(document, original_text, final_text) ==
    IF original_text = <<>> THEN NoBatch
    ELSE LET snap == FlattenDocTextWithMap(document)
             m == Search(PatternFromBlockDocs(original_text), snap.flat_text)
             doc_start == MapFlatOffsetToDocIndex(snap.segments, m.start)
             doc_end == MapFlatOffsetToDocIndex(snap.segments, m.end)
             make_list == IsListBlock(document, doc_start, doc_end)
             insert_text == IF make_list THEN StripListPrefixes(final_text) ELSE final_text
         IN  IF ~m.found THEN NoBatch
             ELSE IF ~HasIndex(doc_start) \/ ~HasIndex(doc_end) THEN NoBatch
             ELSE [raises |-> FALSE,
                   requests |->
                        <<DeleteContentRange(doc_start, doc_end),
                          InsertTextAt(doc_start, insert_text)>>
                        \o (IF make_list /\ insert_text # <<>>
                            THEN <<CreateParagraphBullets(doc_start,
                                        doc_start + Len(insert_text))>>
                            ELSE <<>>),
                   result |-> Updated(1)]

\* range_name = f"replace_{uuid.uuid4().hex}": a name no other range of the
\* document has.
RangeName == "replace_uuid"

UpdatePlanKeepsRange(document, search_text, replace_text, replace_all) ==
    IF search_text = <<>> THEN [raises |-> TRUE, requests |-> <<>>, result |-> Raised]
    ELSE LET occurrences == FindTextOccurrences(document, search_text)
         IN  IF occurrences = <<>> THEN NoBatch
             ELSE IF replace_all
             THEN [raises |-> FALSE,
                   requests |-> <<ReplaceAllText(search_text, replace_text)>>,
                   result |-> Updated(Len(occurrences))]
             ELSE [raises |-> FALSE,
                   requests |->
                        <<CreateNamedRange(RangeName, occurrences[1].start_index,
                                           occurrences[1].end_index),
                          ReplaceNamedRangeContent(RangeName, replace_text)>>,
                   result |-> Updated(1)]

\* update_file_content up to its batchUpdate call (replace_text_in_doc passes its
\* arguments through, final_text or "" as replace_text).
UpdatePlan(document, search_text, replace_text, replace_all) ==
    IF search_text = <<>> THEN [raises |-> TRUE, requests |-> <<>>, result |-> Raised]
    ELSE LET occurrences == FindTextOccurrences(document, search_text)
         IN  IF occurrences = <<>> THEN NoBatch
             ELSE IF replace_all
             THEN [raises |-> FALSE,
                   requests |-> <<ReplaceAllText(search_text, replace_text)>>,
                   result |-> Updated(Len(occurrences))]
             ELSE [raises |-> FALSE,
                   requests |->
                        <<CreateNamedRange(RangeName, occurrences[1].start_index,
                                           occurrences[1].end_index),
                          ReplaceNamedRangeContent(RangeName, replace_text),
                          DeleteNamedRange(RangeName)>>,
                   result |-> Updated(1)]

NoCall == [fn |-> "none", original |-> <<>>, final |-> <<>>, replace_all |-> FALSE]

\* The end of a patch call that planned p on the current body.
Finish(p) ==
    LET bu == BatchUpdate(body, p.requests, mergeKeeps)
    IN  /\ sent' = p.requests
        /\ before' = body
        /\ nPatches' = nPatches + 1
        /\ IF p.raises THEN body' = body /\ result' = Raised
           ELSE IF p.requests = <<>> THEN body' = body /\ result' = p.result
           ELSE IF bu.ok THEN body' = bu.body /\ result' = p.result
           ELSE body' = body /\ result' = Raised

\* Texts of the documents and blocks.
Intro == <<"I", "n", "t", "r", "o">>

Outro == <<"O", "u", "t", "r", "o">>

DidX == <<"d", "i", "d", "SP", "X">>

DidY == <<"d", "i", "d", "SP", "Y">>

DidZ == <<"d", "i", "d", "SP", "Z">>

\* Intro / did X (bulleted) / did Y (bulleted) / Outro.
ScenarioBody == Para(Intro, FALSE) \o Para(DidX, TRUE) \o Para(DidY, TRUE) \o Para(Outro, FALSE)

PatchBodies ==
    { ScenarioBody,
      Para(<<"A", "B">>, FALSE) \o Para(<<"A", "B">>, FALSE),
      Para2(<<"A">>, <<"B", "A", "B">>, FALSE),
      Para(<<"A", "SP", "A">>, TRUE) \o Para(<<"B">>, FALSE),
      Para(<<"A", "A", "A">>, FALSE),
      Para(<<"B">>, FALSE) \o Para(<<"A", "B">>, FALSE) \o Para(<<"A">>, FALSE),
      Para(<<"B">>, FALSE) \o Para2(<<"A">>, <<"A">>, TRUE) \o Para(<<"B">>, TRUE),
      Para(<<"-", "SP", "A">>, FALSE) \o Para(<<"B">>, FALSE) }

\* original_text / search_text of a call.
PatchBlocks ==
    { DidX \o <<"LF">> \o DidY,
      <<"A", "B">>,
      <<"A">>,
      <<"A", "A">>,
      <<"-", "SP", "A">>,
      <<"B", "LF", "A">>,
      <<"-", "SP">>,
      <<"Z">>,
      <<>> }

\* final_text / replace_text of a call.
PatchTexts ==
    { DidZ,
      <<"B">>,
      <<"-", "SP", "B", "LF", "-", "SP", "A">>,
      <<>> }

PatchIdle ==
    /\ body = <<>>
    /\ mergeKeeps = "first"
    /\ before = <<>>
    /\ call = NoCall
    /\ sent = <<>>
    /\ result = NotUpdated
    /\ nPatches = 0

PatchInit ==
    /\ body \in PatchBodies
    /\ mergeKeeps \in {"first", "last"}
    /\ before = <<>>
    /\ call = NoCall
    /\ sent = <<>>
    /\ result = NotUpdated
    /\ nPatches = 0

\* replace_text_block_flexible(file_id, original_text, final_text).
ReplaceTextBlockFlexible ==
    /\ nPatches < MaxPatches
    /\ \E original_text \in PatchBlocks, final_text \in PatchTexts :
        /\ call' = [fn |-> "replace_text_block_flexible", original |-> original_text,
                    final |-> final_text, replace_all |-> FALSE]
        /\ Finish(FlexiblePlan(GetDocument(body), original_text, final_text))
    /\ UNCHANGED <<mergeKeeps, jobVars, parseVars, matchVars, snapVars>>

\* update_file_content(drive, docs, file_id, search_text, replace_text, replace_all).
UpdateFileContent ==
    /\ nPatches < MaxPatches
    /\ \E search_text \in PatchBlocks, replace_text \in PatchTexts, replace_all \in BOOLEAN :
        /\ call' = [fn |-> "update_file_content", original |-> search_text,
                    final |-> replace_text, replace_all |-> replace_all]
        /\ Finish(UpdatePlan(GetDocument(body), search_text, replace_text, replace_all))
    /\ UNCHANGED <<mergeKeeps, jobVars, parseVars, matchVars, snapVars>>

\* prepend_text_to_doc_top up to its batchUpdate call.
PrependPlan(text) ==
    IF text = <<>> THEN NoBatch
    ELSE [raises |-> FALSE,
          requests |-> <<InsertTextAt(1, text \o <<"LF", "LF">>)>>,
          result |-> Updated(1)]

\* One gdrive_utils call with the plan p on the body b: what it returns or that it
\* raises, the batch it sent and the body afterwards; the Docs service answers
\* (up) or every call to it raises.
Outcome(r, requests, b) == [result |-> r, requests |-> requests, body |-> b]

RunPlan(b, p, keep, up) ==
    IF p.raises THEN Outcome(Raised, <<>>, b)
    ELSE IF ~up THEN Outcome(Raised, <<>>, b)
    ELSE IF p.requests = <<>> THEN Outcome(p.result, <<>>, b)
    ELSE LET bu == BatchUpdate(b, p.requests, keep)
         IN  IF bu.ok THEN Outcome(p.result, p.requests, bu.body)
             ELSE Outcome(Raised, p.requests, b)

\* "Replace or prepend summary in the Drive doc" for a profile with an old summary:
\* the flexible replace, the basic replace when that did not update, and the
\* prepend when one of the two raised; what the basic replace and the prepend
\* return is not looked at, what the prepend raises is logged.
SummaryStep(b, old_summary, new_summary, keep, replaceUp, prependUp) ==
    LET flexible == RunPlan(b, FlexiblePlan(GetDocument(b), old_summary, new_summary),
                            keep, replaceUp)
        basic == RunPlan(b, UpdatePlan(GetDocument(b), old_summary, new_summary, FALSE),
                         keep, replaceUp)
        prepend == RunPlan(b, PrependPlan(new_summary), keep, prependUp)
    IN  IF flexible.result = Raised THEN prepend
        ELSE IF flexible.result.updated THEN flexible
        ELSE IF basic.result = Raised THEN prepend
        ELSE basic

\* The summary step of the Drive branch on the duplicate document.
ReplaceOrPrependSummary ==
    /\ nPatches < MaxPatches
    /\ \E old_summary \in PatchBlocks \ {<<>>}, new_summary \in PatchTexts \ {<<>>},
          replaceUp \in BOOLEAN, prependUp \in BOOLEAN :
        LET out == SummaryStep(body, old_summary, new_summary, mergeKeeps,
                               replaceUp, prependUp)
        IN  /\ call' = [fn |-> "summary_step", original |-> old_summary,
                        final |-> new_summary, replace_all |-> FALSE]
            /\ sent' = out.requests
            /\ before' = body
            /\ body' = out.body
            /\ result' = out.result
            /\ nPatches' = nPatches + 1
    /\ UNCHANGED <<mergeKeeps, jobVars, parseVars, matchVars, snapVars>>

PatchNext == ReplaceTextBlockFlexible \/ UpdateFileContent \/ ReplaceOrPrependSummary

InitPatch == JobIdle /\ MatchIdle /\ SnapIdle /\ PatchInit /\ ParseIdle

SpecPatch == InitPatch /\ [][PatchNext]_vars

\* flat_text, segments = _flatten_doc_text_with_map(doc).
FlattenDocument ==
    /\ ~flatDone
    /\ flatDone' = TRUE
    /\ snapshot' = FlattenDocTextWithMap(docIn)
    /\ UNCHANGED <<docIn, extractDone, extracted, planned, jobVars, parseVars, matchVars, patchVars>>

\* full_text, index_map = _extract_text_with_index_map(doc).
ExtractDocument ==
    /\ ~extractDone
    /\ extractDone' = TRUE
    /\ extracted' = ExtractTextWithIndexMap(docIn)
    /\ UNCHANGED <<docIn, flatDone, snapshot, planned, jobVars, parseVars, matchVars, patchVars>>

\* replace_text_block_flexible(file_id, original_text, "Z") when documents().get
\* returns docIn: the span of the match in the flat text and the requests sent.
PlanReplace ==
    /\ ~planned.done
    /\ \E original_text \in SnapBlocks :
            planned' =
                [done |-> TRUE,
                 original |-> original_text,
                 span |-> Search(PatternFromBlockDocs(original_text),
                                 FlattenDocTextWithMap(docIn).flat_text),
                 batch |-> FlexiblePlan(docIn, original_text, <<"Z">>).requests]
    /\ UNCHANGED <<docIn, flatDone, snapshot, extractDone, extracted,
                   jobVars, parseVars, matchVars, patchVars>>

SnapNext == FlattenDocument \/ ExtractDocument \/ PlanReplace

InitSnap == JobIdle /\ MatchIdle /\ SnapInit /\ PatchIdle /\ ParseIdle

SpecSnap == InitSnap /\ [][SnapNext]_vars

InitMatch == JobIdle /\ MatchInit /\ SnapIdle /\ PatchIdle /\ ParseIdle

SpecMatch == InitMatch /\ [][MatchNext]_vars

InitParse == JobIdle /\ MatchIdle /\ SnapIdle /\ PatchIdle /\ ParseInit

SpecParse == InitParse /\ [][ParseNext]_vars

\* ------------------------------------------------------------------ claims

AllRows == 1..Len(rows)

\* C1 (as claimed): of the worker loops that polled the same pending row, exactly one
\* claims it and runs the pipeline for it, and a terminal status is written to the
\* row once.
C1_ClaimExclusivity ==
    \A j \in AllRows : Cardinality(ran[j]) <= 1 /\ termWrites[j] # "many"

\* C2 (as claimed): once a row's status is completed or failed, no later step changes
\* its status.
C2_TerminalImmutable ==
    [][\A j \in AllRows :
          rows[j].status \in Terminal => rows'[j].status = rows[j].status]_vars

\* The status changes of the job state machine.
AllowedTransitions ==
    { <<"pending", "processing">>,
      <<"processing", "completed">>,
      <<"processing", "failed">> }

\* C3 (as claimed): a row's status is always one of the four statuses, a new row is
\* pending, and every change of a row's status is pending -> processing,
\* processing -> completed or processing -> failed.
C3_StatusLifecycle ==
    [][\A j \in 1..Len(rows') :
          /\ rows'[j].status \in Statuses
          /\ j > Len(rows) => rows'[j].status = "pending"
          /\ (j <= Len(rows) /\ rows'[j].status # rows[j].status)
                => <<rows[j].status, rows'[j].status>> \in AllowedTransitions]_vars

\* C6 (as claimed): the pattern compiled from a block, by either builder, matches a
\* target that differs from the block only in a whitespace run replaced by another
\* non-empty whitespace run. Stated for the blocks of the claim's own example: plain
\* text without list prefixes that starts and ends with a non-whitespace character.
C6_WhitespaceTolerance ==
    (/\ searched
     /\ how = "ws"
     /\ \A i \in 1..Len(block) : block[i] \in RawChars
     /\ ~IsFlexWs(block[1])
     /\ ~IsFlexWs(block[Len(block)]))
        => (mDocs.found /\ mFlex.found)

\* C7: a block whose lines all carry a literal list prefix matches the text that holds
\* only the line bodies, one paragraph per line: the match starts at the first body
\* and reaches the end of the last body.
C7_BulletTolerance ==
    (searched /\ how = "bullets") =>
        /\ mDocs.found
        /\ mDocs.start = 0
        /\ mDocs.end >= Len(Join(lineBodies, <<"LF">>))

\* C7 witness: block "- A" searched in a paragraph whose run text is "A".
C7_Witness ==
    /\ searched
    /\ how = "bullets"
    /\ block = <<"-", "SP", "A">>
    /\ target = <<"A">>
    /\ mDocs = [found |-> TRUE, start |-> 0, end |-> 1]

\* The block of the last patch call is absent from the text of the document it was
\* made on: no match of the fuzzy pattern, no literal occurrence.
BlockAbsent ==
    /\ call.fn \in {"replace_text_block_flexible", "update_file_content"}
    /\ call.original # <<>>
    /\ call.fn = "replace_text_block_flexible" =>
            ~Search(PatternFromBlockDocs(call.original), TextOf(before)).found
    /\ call.fn = "update_file_content" => Find(TextOf(before), call.original, 0) = -1

\* C4 (no-match safety): a patch call whose block occurs nowhere in the document
\* returns updated = false with matches = 0, sends no batchUpdate, and leaves the
\* document as it was.
C4_NoMatchSafety ==
    BlockAbsent => (result = NotUpdated /\ sent = <<>> /\ body = before)

C4_Witness ==
    /\ call = [fn |-> "replace_text_block_flexible", original |-> <<"Z">>,
               final |-> DidZ, replace_all |-> FALSE]
    /\ before = ScenarioBody
    /\ body = ScenarioBody
    /\ result = NotUpdated

\* The offsets of the literal occurrences of the last call's search text in the
\* document it was made on, and: there are exactly two, and they do not overlap.
\* For replace_all the search text lies within a paragraph: whether the service's
\* replaceAllText finds a text that spans a paragraph end is not the program's doing.
OccurrenceStarts ==
    {p \in 0..(Len(before) - Len(call.original)) :
        SubSeq(TextOf(before), p + 1, p + Len(call.original)) = call.original}

OccursTwice ==
    /\ call.fn = "update_file_content"
    /\ call.original # <<>>
    /\ Cardinality(OccurrenceStarts) = 2
    /\ Max(OccurrenceStarts) - MinOf(OccurrenceStarts) >= Len(call.original)
    /\ call.replace_all => \A k \in 1..Len(call.original) : call.original[k] # "LF"

ScenarioCall ==
    /\ call = [fn |-> "replace_text_block_flexible", original |-> DidX \o <<"LF">> \o DidY,
               final |-> DidZ, replace_all |-> FALSE]
    /\ before = ScenarioBody

\* C8 (scenario): the patch of the scenario leaves exactly the paragraphs Intro,
\* did Z, Outro; Intro and Outro are as before and did Z is the one bulleted line.
C8_Scenario ==
    ScenarioCall =>
        /\ result = Updated(1)
        /\ body = Para(Intro, FALSE) \o Para(DidZ, TRUE) \o Para(Outro, FALSE)

C8_Witness ==
    /\ ScenarioCall
    /\ Len(sent) = 3
    /\ sent[1].request = "deleteContentRange"
    /\ TextOf(body) = Intro \o <<"LF">> \o DidZ \o <<"LF">> \o Outro \o <<"LF">>

\* A document of plain paragraphs: no table among its elements.
PlainParagraphs(d) == \A k \in 1..Len(d) : d[k].kind # "table"

Addressed(r) ==
    r.textRun /\ r.content # <<>> /\ HasIndex(r.startIndex) /\ HasIndex(r.endIndex)

RECURSIVE ConcatAll(_, _)
ConcatAll(ss, i) == IF i > Len(ss) THEN <<>> ELSE ss[i] \o ConcatAll(ss, i + 1)

\* The addressed text runs of the paragraphs of d, in document order.
AddressedRuns(d) ==
    ConcatAll([k \in 1..Len(d) |->
                  IF d[k].kind = "paragraph" THEN SelectSeq(d[k].elements, Addressed)
                  ELSE <<>>], 1)

\* C10 (snapshot invariant, exact round-trip): for a document of plain paragraphs
\* the segments of _flatten_doc_text_with_map are one per addressed run, start at
\* flat offset 0, each starts where the one before ends, the slice
\* flat_text[flat_start:flat_end] is the run's text, and flat_text is the
\* concatenation of the texts of the addressed runs in document order.
C10_SnapshotInvariant ==
    (flatDone /\ PlainParagraphs(docIn)) =>
        LET s == snapshot.segments
            t == snapshot.flat_text
            runs == AddressedRuns(docIn)
        IN  /\ Len(s) = Len(runs)
            /\ \A k \in 1..Len(s) :
                /\ s[k].flat_start = (IF k = 1 THEN 0 ELSE s[k - 1].flat_end)
                /\ s[k].flat_end <= Len(t)
                /\ s[k].text = runs[k].content
                /\ SubSeq(t, s[k].flat_start + 1, s[k].flat_end) = runs[k].content
                /\ s[k].doc_start = runs[k].startIndex
                /\ s[k].doc_end = runs[k].endIndex
            /\ t = ConcatAll([k \in 1..Len(runs) |-> runs[k].content], 1)

C10_Witness ==
    /\ flatDone
    /\ PlainParagraphs(docIn)
    /\ Len(snapshot.segments) = 3
    /\ snapshot.flat_text = <<"A", "LF", "A", "B", "LF">>
    /\ \E k \in 1..Len(docIn) : \E j \in 1..Len(docIn[k].elements) :
            /\ docIn[k].elements[j].content # <<>>
            /\ ~HasIndex(docIn[k].elements[j].startIndex)

\* No worker is processing row j (any more).
Released(j) == \A w \in Workers : cur[w] # j

\* C11: a row whose processing raised an exception that left its step ends with
\* status failed and carries an error message of at most ErrorLimit characters.
C11_FailedWithBoundedError ==
    \A j \in AllRows :
        (faults[j] \in {"external", "internal"} /\ Released(j))
            => /\ rows[j].status = "failed"
               /\ rows[j].error \in 0..ErrorLimit

\* The provider answered request i with a refusal.
Refusal(reply) == reply.kind = "message" /\ reply.refusal = "text"

LastReply == replies[Len(replies)]

\* C12: parse_resume_to_json sends at most 3 requests to the structured-output
\* provider; every request but the last was answered with a refusal (so the first
\* non-refused answer, and any API or transport error, ends the calls); it returns
\* the converted payload of the first non-refused answer, raises the refusal
\* failure after the third consecutive refusal, and re-raises an API error.
C12_BoundedRefusalRetries ==
    /\ Len(replies) <= 3
    /\ \A i \in 1..(Len(replies) - 1) : Refusal(replies[i])
    /\ parseResult.kind = "returned"
            => /\ replies # <<>>
               /\ LastReply.kind = "message"
               /\ ~Refusal(LastReply)
               /\ parseResult.result = LastReply.parsed.jobs
    /\ (ppc = "done" /\ Len(replies) = 3 /\ Refusal(LastReply))
            => parseResult = RaisedError("refused")
    /\ (ppc = "done" /\ replies # <<>> /\ LastReply.kind # "message")
            => parseResult = RaisedError(LastReply.kind)
    /\ (ppc = "done" /\ replies # <<>> /\ Refusal(LastReply)) => Len(replies) = 3

C12_Witness ==
    /\ ppc = "done"
    /\ Len(replies) = 3
    /\ \A i \in 1..3 : Refusal(replies[i])
    /\ parseResult = RaisedError("refused")

\* The calls of a tailoring run up to the update that writes completed.
LocalSteps == <<"analyze">> \o Rep(<<"rewrite">>, profile.nHist) \o <<"summary">>

\* The calls of the Drive branch when the copy has an id.
DriveSteps ==
    <<"duplicate">> \o Rep(<<"patch">>, profile.nBlocks)
        \o (IF profile.hasSummary THEN <<"patch_summary">> ELSE <<>>) \o <<"export">>

\* The call logs of a run in which every step of the pipeline was taken.
CompletePipelines ==
    IF profile.hasMaster
    THEN {LocalSteps \o DriveSteps, LocalSteps \o <<"duplicate_no_id">>}
    ELSE {LocalSteps}

\* C13: when a worker lets go of a row for which a block or the old summary was
\* not found, and nothing was raised, the row is completed (not failed) and every
\* step of the pipeline has been taken.
C13_MatchFailureNonFatal ==
    [][\A w \in Workers :
        LET j == cur[w] IN
            (j # 0 /\ pc[w] # "claim" /\ cur'[w] # j /\ missed'[j] /\ faults'[j] = "none")
                => /\ rows'[j].status = "completed"
                   /\ calls'[w] \in CompletePipelines]_vars

\* C13 as stated: moreover a summary step whose old summary is not found is
\* skipped, so no stored final_resume_text has the new summary prepended.
C13_MissSkipsStep ==
    \A j \in AllRows : missed[j] => rows[j].summary # "prepended"

C13_Witness ==
    /\ profile.nBlocks > 0
    /\ \E j \in AllRows :
            /\ Released(j)
            /\ missed[j]
            /\ faults[j] = "none"
            /\ rows[j].status = "completed"
            /\ rows[j].pdf
    /\ calls["w1"] = LocalSteps \o DriveSteps

\* C14: the terminal status of a row for which a call to an external collaborator
\* failed (caught by its step or not) is failed.
C14_FailuresPropagate ==
    \A j \in AllRows :
        (faults[j] \in {"logged", "external"} /\ Released(j) /\ rows[j].status \in Terminal)
            => rows[j].status = "failed"

\* C15: completed is not the status of a tailoring row while a worker still has
\* its Drive patch calls, its export or the update of gdrive_pdf_resume_id to
\* execute for it.
C15_TerminalAfterPipeline ==
    \A w \in Workers :
        pc[w] \in {"dup", "patch", "dsummary", "export", "pdfupdate"}
            => rows[cur[w]].status # "completed"

IsPrefix(s, t) == Len(s) <= Len(t) /\ SubSeq(t, 1, Len(s)) = s

Count(s, c) == Cardinality({i \in 1..Len(s) : s[i] = c})

\* C16 (amended): the calls issued for one tailoring job are, in this order, the
\* analysis, one rewrite per selected history, the summary generation, the
\* duplicate, one patch per history that has an achievements block and a
\* rewritten text, the summary patch (when the profile has a summary) and the
\* export: every log is a prefix of that sequence, so no patch precedes the
\* last rewrite or the summary generation and the export follows the last patch.
C16_SequentialSteps ==
    kind = "tailoring" =>
        \A w \in Workers :
            \/ IsPrefix(calls[w], LocalSteps \o DriveSteps)
            \/ IsPrefix(calls[w], LocalSteps \o <<"duplicate_no_id">>)

\* C16 as stated: moreover the document is patched once per rewritten section.
C16_PatchPerRewrittenSection ==
    /\ C16_SequentialSteps
    /\ \A w \in Workers :
            Count(calls[w], "export") > 0
                => Count(calls[w], "patch") = Count(calls[w], "rewrite")

C16_Witness ==
    /\ profile.nBlocks > 0
    /\ profile.hasSummary
    /\ pc["w1"] = "pdfupdate"
    /\ calls["w1"] = LocalSteps \o DriveSteps

\* A worker died while it processed row j, and the row is still processing.
Orphaned(j) ==
    /\ rows[j].status = "processing"
    /\ \E w \in Workers : pc[w] = "dead" /\ cur[w] = j

\* C17: a row whose worker died between the claim and the terminal write stays
\* processing: no step of any worker loop claims it again or writes to it.
C17_OrphanedForever ==
    [][\A j \in AllRows : Orphaned(j) => (rows'[j] = rows[j] /\ ran'[j] = ran[j])]_vars

\* The segment table of the document the plan was made for.
PlanSegments == FlattenDocTextWithMap(docIn).segments

\* C18: when replace_text_block_flexible sends deleteContentRange for a match, the
\* deleted range is as long as the matched span of the flat text (a span that
\* crosses content without a segment must send nothing instead).
C18_IntendedRegionOnly ==
    (planned.done /\ planned.batch # <<>>) =>
        planned.batch[1].endIndex - planned.batch[1].startIndex
            = planned.span.end - planned.span.start

\* C19: when a match starts at the offset where one segment ends and the next
\* starts, the deleted range starts at the next segment's doc_start.
C19_BoundaryUsesContainingSegment ==
    (planned.done /\ planned.batch # <<>>) =>
        \A k \in 1..(Len(PlanSegments) - 1) :
            (/\ PlanSegments[k].flat_end = planned.span.start
             /\ PlanSegments[k + 1].flat_start = planned.span.start)
                => planned.batch[1].startIndex = PlanSegments[k + 1].doc_start

\* The text runs in the cells of the tables of d.
TableRuns(d) ==
    UNION {UNION {UNION {{d[k].cells[c][p].elements[e] :
                            e \in 1..Len(d[k].cells[c][p].elements)} :
                        p \in 1..Len(d[k].cells[c])} :
                    c \in 1..Len(d[k].cells)} :
            k \in 1..Len(d)}

\* C20: every addressed text run of a table cell has its segment in the snapshot
\* _flatten_doc_text_with_map builds, so its text is part of the flat text.
C20_TableCellsInFlatText ==
    flatDone =>
        \A r \in {x \in TableRuns(docIn) : Addressed(x)} :
            \E k \in 1..Len(snapshot.segments) :
                /\ snapshot.segments[k].doc_start = r.startIndex
                /\ snapshot.segments[k].text = r.content

\* The last call was replace_text_block_flexible, its block occurs literally in the
\* document it was made on, and the call edited the document.
LiteralStart == Find(TextOf(before), call.original, 0)

PatchedLiteralBlock ==
    /\ call.fn = "replace_text_block_flexible"
    /\ call.original # <<>>
    /\ LiteralStart # -1
    /\ result = Updated(1)

\* C21 (literal first): when the block of replace_text_block_flexible occurs
\* character for character in the document, the range the call deletes and writes at
\* is the span of the earliest literal occurrence, as a substring search returns it.
C21_LiteralSpanPatched ==
    PatchedLiteralBlock =>
        /\ sent[1] = DeleteContentRange(LiteralStart + 1,
                                        LiteralStart + 1 + Len(call.original))
        /\ sent[2].startIndex = LiteralStart + 1

\* The span the pattern of the last call's block matches in the document the call
\* was made on, and: the call was replace_text_block_flexible and sent a batch.
MatchSpan == Search(PatternFromBlockDocs(call.original), TextOf(before))

FuzzyBatchSent ==
    /\ call.fn = "replace_text_block_flexible"
    /\ sent # <<>>

\* C22 (one batch): a fuzzy patch goes out as one batchUpdate whose first two
\* requests are deleteContentRange on [doc_start, doc_end) and insertText at
\* doc_start, followed by nothing but the list styling; the batch takes effect
\* as a whole (the replacement stands at doc_start) or not at all (the document is as
\* before), so the document is never seen with the region deleted and nothing
\* inserted.
C22_OneBatchDeleteThenInsert ==
    FuzzyBatchSent =>
        /\ Len(sent) \in {2, 3}
        /\ sent[1] = DeleteContentRange(MatchSpan.start + 1, MatchSpan.end + 1)
        /\ sent[2].request = "insertText"
        /\ sent[2].startIndex = sent[1].startIndex
        /\ Len(sent) = 3 => sent[3].request = "createParagraphBullets"
        /\ \/ result = Raised /\ body = before
           \/ /\ result = Updated(1)
              /\ Len(body) = Len(before) - (MatchSpan.end - MatchSpan.start)
                                + Len(sent[2].text)
              /\ SubSeq(TextOf(body), sent[2].startIndex,
                        sent[2].startIndex + Len(sent[2].text) - 1) = sent[2].text

C22_Witness ==
    /\ FuzzyBatchSent
    /\ before = Para(<<"B">>, FALSE) \o Para(<<"A", "B">>, FALSE) \o Para(<<"A">>, FALSE)
    /\ call.original = <<"B", "LF", "A">>
    /\ call.final = DidZ
    /\ sent = <<DeleteContentRange(1, 4), InsertTextAt(1, DidZ)>>
    /\ result = Updated(1)
    /\ TextOf(body) = DidZ \o <<"B", "LF", "A", "LF">>

\* The range the last fuzzy patch deletes overlaps a paragraph of the document that
\* has bullet styling.
RegionBulleted ==
    \E k \in 1..Len(before) :
        /\ before[k].ch = "LF"
        /\ before[k].bullet
        /\ ParaStart(before, k) < sent[1].endIndex
        /\ sent[1].startIndex < k + 1

\* C23 as stated: for a bulleted region the replacement is inserted with the
\* prefixes of its lines removed and createParagraphBullets follows the insert,
\* over [doc_start, doc_start + length of the inserted text); for any other region
\* the replacement is inserted verbatim and the batch has no list styling.
C23_BulletsAlwaysReapplied ==
    FuzzyBatchSent =>
        IF RegionBulleted
        THEN /\ sent[2].text = StripListPrefixes(call.final)
             /\ Len(sent) = 3
             /\ sent[3] = CreateParagraphBullets(sent[1].startIndex,
                                sent[1].startIndex + Len(sent[2].text))
        ELSE /\ sent[2].text = call.final
             /\ Len(sent) = 2

\* C23 (bullet handling), amended: as stated, except that createParagraphBullets
\* is appended only when the replacement, after its prefixes are removed, is not
\* empty; a bulleted region with an empty replacement gets the delete and the
\* insert alone.
C23_BulletHandling ==
    FuzzyBatchSent =>
        IF RegionBulleted
        THEN /\ sent[2].text = StripListPrefixes(call.final)
             /\ IF sent[2].text # <<>>
                THEN /\ Len(sent) = 3
                     /\ sent[3] = CreateParagraphBullets(sent[1].startIndex,
                                        sent[1].startIndex + Len(sent[2].text))
                ELSE Len(sent) = 2
        ELSE /\ sent[2].text = call.final
             /\ Len(sent) = 2

C23_Witness ==
    /\ FuzzyBatchSent
    /\ RegionBulleted
    /\ call.final = <<"-", "SP", "B", "LF", "-", "SP", "A">>
    /\ sent[2].text = <<"B", "LF", "A">>
    /\ sent[3] = CreateParagraphBullets(sent[1].startIndex, sent[1].startIndex + 3)
    /\ result = Updated(1)

\* The last call was update_file_content for the first occurrence only, and it
\* sent a batch; the named ranges the document has after that batch.
FirstOnlyBatchSent ==
    /\ call.fn = "update_file_content"
    /\ ~call.replace_all
    /\ sent # <<>>

RangesLeft == BatchUpdate(before, sent, mergeKeeps).namedRanges

\* C24 (named-range protocol): for replace_all = false update_file_content sends
\* one batch of exactly createNamedRange over the native range of the first
\* occurrence, replaceNamedRangeContent on that name with the replacement, and
\* deleteNamedRange of that name, in this order; after a successful call the
\* document has no named range of the call.
C24_NamedRangeProtocol ==
    FirstOnlyBatchSent =>
        LET first == MinOf(OccurrenceStarts)
        IN  /\ Len(sent) = 3
            /\ sent[1].request = "createNamedRange"
            /\ sent[1].startIndex = first + 1
            /\ sent[1].endIndex = first + 1 + Len(call.original)
            /\ sent[2].request = "replaceNamedRangeContent"
            /\ sent[2].name = sent[1].name
            /\ sent[2].text = call.final
            /\ sent[3].request = "deleteNamedRange"
            /\ sent[3].name = sent[1].name
            /\ result = Updated(1) => RangesLeft = {}

C24_Witness ==
    /\ FirstOnlyBatchSent
    /\ before = Para(<<"A", "B">>, FALSE) \o Para(<<"A", "B">>, FALSE)
    /\ call.original = <<"A", "B">>
    /\ call.final = DidZ
    /\ sent[1] = CreateNamedRange(RangeName, 1, 3)
    /\ result = Updated(1)
    /\ RangesLeft = {}
    /\ TextOf(body) = DidZ \o <<"LF", "A", "B", "LF">>

\* C29 (no edit on an empty match): a call of replace_text_block_flexible with a
\* non-empty block whose pattern matches nothing, or matches an empty span of the
\* flat text, sends no batchUpdate, returns updated = false with matches = 0 and
\* leaves the document as it was.
C29_NoEditOnEmptyMatch ==
    ( /\ call.fn = "replace_text_block_flexible"
      /\ call.original # <<>>
      /\ ~(MatchSpan.found /\ MatchSpan.start < MatchSpan.end) )
    => (sent = <<>> /\ result = NotUpdated /\ body = before)

\* The first line of the last call's block starts with a bullet or number prefix.
BlockHasPrefix ==
    LET lines == SplitLines(call.original)
    IN  lines # <<>> /\ LineBody(lines[1]) # lines[1]

\* C30 (literal prefix replaced): when the block of a fuzzy patch starts with a
\* bullet or number prefix and the document holds the block, prefix included, as
\* plain text, the patch replaces the prefix along with the rest: the document
\* afterwards is the text before the block, the replacement, and the text after the
\* block.
C30_LiteralPrefixReplaced ==
    (PatchedLiteralBlock /\ BlockHasPrefix) =>
        LET t == TextOf(before)
        IN  TextOf(body) = SubSeq(t, 1, LiteralStart) \o sent[2].text
                            \o SubSeq(t, LiteralStart + Len(call.original) + 1, Len(t))

\* C27: a tailoring row whose processing is over and for which no call to an
\* external collaborator failed has status completed and a stored final resume
\* text, whatever the profile (with or without an existing summary).
C27_SuccessCompletes ==
    kind = "tailoring" =>
        \A j \in AllRows :
            ( /\ Released(j)
              /\ rows[j].status \in Terminal
              /\ faults[j] \notin {"logged", "external"} )
            => (rows[j].status = "completed" /\ rows[j].final)

\* C28 (own row only): every step of the resume-check pipeline that changes a row
\* of resume_checks changes the row of the job the stepping worker is processing
\* and no other, also when several rows have the same user_id and job_post.
C28_OwnRowOnly ==
    [][kind = "resume_check" =>
        \A i \in 1..Len(rows) :
            rows'[i] # rows[i] => \E w \in Workers : cur[w] = i \/ cur'[w] = i]_vars

\* C26 (replace or prepend): after the summary step on the duplicate document for
\* a profile with an old summary, whenever the Docs service is up for the prepend,
\* the new summary (its lines without bullet prefixes when it went into a list)
\* stands in the document: in place of the old summary or at the top.
C26_SummaryPresent ==
    (call.fn = "summary_step" /\ result # Raised) =>
        \/ Find(TextOf(body), call.final, 0) # -1
        \/ Find(TextOf(body), StripListPrefixes(call.final), 0) # -1

\* C25 (liveness): with a worker that does not crash and calls that all return,
\* every row inserted with status pending is eventually claimed (its status is no
\* longer pending) and eventually has status completed or failed.
C25_EveryJobFinishes ==
    \A j \in 1..MaxJobs :
        (j <= Len(rows) /\ rows[j].status = "pending")
            ~> (j <= Len(rows) /\ rows[j].status \in Terminal)

Init == JobInit /\ MatchIdle /\ SnapIdle /\ PatchIdle /\ ParseIdle

Next == Enqueue \/ \E w \in Workers : WorkerStep(w)

Spec == Init /\ [][Next]_vars

\* A deployment with a single worker loop.
NextOne == Enqueue \/ WorkerStep("w1")

SpecOne == Init /\ [][NextOne]_vars

\* The worker process keeps running (while True, no crash) and every call it
\* makes returns: a step of the worker that can be taken is taken.
SpecLive == Init /\ [][NextOne]_vars /\ WF_vars(WorkerStep("w1"))

\* A deployment in which worker processes can die.
NextCrash == Next \/ \E w \in Workers : Crash(w)

SpecCrash == Init /\ [][NextCrash]_vars

====
